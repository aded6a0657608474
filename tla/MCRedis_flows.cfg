SPECIFICATION RedisRun
CONSTANTS
 OtpIds={i1}
 NoId=NoId
 Contacts={c1,c2}
 SmsContacts={c1}
 Ips={a1}
 Devices={}
 k1=k1
 c1=c1
 Codes={k1,k2}
 ContactMax=2
 IpMax=2
 SmsIpMax=1
 DeviceMax=1
 MaxCount=3
 MaxVerifyAttempts=2
 MaxAttempts=2
 OtpProcs={p1,p2}
 OtpCrashes=FALSE
 m1=m1
 m2=m2
 t1=t1
 d1=d1
 d2=d2
 d3=d3
 Payloads={d1,d2,d3}
 ChangesOf<-MCChanges
 Malformed={d3}
 Events={m1,m2,t1}
 JobIds={j1,j2}
 Workers={w1,w2}
 MaxTries=2
 MaxStalls=1
 MaxClaimFaults=2
 InboundCrashes=TRUE
 Raters={w1,w2}
 Stars={1,4}
 MaxReviews=2
 RatingAttempts=2
INVARIANT ExhaustedIsDropped
INVARIANT StoredCodeWasDispatched
PROPERTY LimitIsAWindow
INVARIANT HandledOnce
PROPERTY AcceptedIsWorkedOff
PROPERTY RatingFollowsReviews
PROPERTY CountGoesBackLate
CHECK_DEADLOCK FALSE
