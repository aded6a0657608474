SPECIFICATION AuthRun
CONSTANTS
 p1=p1
 p2=p2
 u1=u1
 u2=u2
 e1=e1
 e3=e3
 g1=g1
 g2=g2
 UserIds={u1,u2}
 Emails={e1,e3}
 Phones={}
 Typed={e1}
 None=None
 Identities={g1,g2}
 EmailOf<-MCEmailOf
 VerifiedIds={g1}
 Synthetic<-MCSynthetic
 AccountProcs={p1,p2}
 AccountCrashes=TRUE
 MaxPairs=2
 Members={u1}
 SecondLength=2
 AccessTtl=1
 RefreshTtl=2
 Retention=0
 MaxClock=3
 AuthProcs={p1,p2}
 AuthCrashes=TRUE
INVARIANT OneAccountPerContact
INVARIANT IdentityLeadsToOneAccount
INVARIANT RefreshTokensDie
INVARIANT LoggedOutIsBlocked
PROPERTY SessionsEndByRequest
CHECK_DEADLOCK FALSE
SYMMETRY Symmetry
