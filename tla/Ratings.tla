------------------------------- MODULE Ratings -------------------------------
(***************************************************************************)
(* The recompute of a shop's rating: RatingProducerService adds a BullMQ   *)
(* job whose id is the shop's id, and RatingProcessor reads the average    *)
(* and the number of the reviews in one query and writes them to the shop  *)
(* in another.  Jobs of different shops share nothing, so there is one     *)
(* shop.  Nothing in the service writes reviews yet: a writer that adds a  *)
(* review and then enqueues, or stops in between, is external.  A worker   *)
(* may die, or lose its job to another one and go on without knowing.      *)
(***************************************************************************)
EXTENDS Integers, Sequences

CONSTANTS
  Raters,          \* worker slots of the shop-rating queue
  Stars,           \* the ratings reviews may give
  MaxReviews,      \* bound on the reviews
  RatingAttempts   \* attempts of the job, 3 in the code

ASSUME RatingsAssumption ==
  /\ Stars \subseteq 1..5 /\ MaxReviews \in Nat /\ RatingAttempts \in Nat \ {0}

VARIABLES
  reviews,     \* the shop's reviews, in the order of their commits
  owed,        \* reviews whose writer has not enqueued yet
  rated,       \* avg_rating (in hundredths) and review_count of the shop
  ratingJob,   \* the job with the shop's id: its state, failures and stalls
  raters,      \* worker -> its step, whether the job is still its own, the
               \* reviews it read
  late         \* history: a worker that had lost its job wrote the rating

ratingsVars == <<reviews, owed, rated, ratingJob, raters, late>>

NoRatingJob == [state |-> "none", tries |-> 0, stalls |-> 0]
RestingRater == [pc |-> "idle", holds |-> FALSE, seen |-> <<>>]

RatingsTypeOK ==
  /\ reviews \in Seq(Stars) /\ Len(reviews) <= MaxReviews
  /\ owed \in 0..Len(reviews)
  /\ rated \in [avg : 0..500, count : 0..Len(reviews)]
  /\ ratingJob \in [state : {"none", "waiting", "active", "failed"},
                    tries : 0..RatingAttempts, stalls : 0..1]
  /\ \A w \in Raters :
       /\ raters[w].pc \in {"idle", "query", "update", "finish"}
       /\ raters[w].seen \in Seq(Stars)
       /\ raters[w].holds => ratingJob.state = "active" /\ raters[w].pc # "idle"
  /\ \A v, w \in Raters : raters[v].holds /\ raters[w].holds => v = w
  /\ late \in BOOLEAN

RatingsInit ==
  /\ reviews = <<>> /\ owed = 0 /\ late = FALSE
  /\ rated = [avg |-> 0, count |-> 0]
  /\ ratingJob = NoRatingJob
  /\ raters = [w \in Raters |-> RestingRater]

-----------------------------------------------------------------------------
AddReview ==
  /\ Len(reviews) < MaxReviews
  /\ \E s \in Stars : reviews' = Append(reviews, s)
  /\ owed' = owed + 1
  /\ UNCHANGED <<rated, ratingJob, raters, late>>

WriterStops ==
  /\ owed > 0 /\ owed' = owed - 1
  /\ UNCHANGED <<reviews, rated, ratingJob, raters, late>>

(* Mutant of the next definition: the job is added without an id.           *)
EnqueueWithoutJobId ==
  /\ owed > 0 /\ owed' = owed - 1
  /\ ratingJob' = [NoRatingJob EXCEPT !.state = "waiting"]
  /\ UNCHANGED <<reviews, rated, raters, late>>

(* queue.add: a job with the id is left as it is, whatever its state.       *)
EnqueueShopRatingRecompute ==
  /\ owed > 0 /\ owed' = owed - 1
  /\ ratingJob' = IF ratingJob.state = "none"
                  THEN [NoRatingJob EXCEPT !.state = "waiting"] ELSE ratingJob
  /\ UNCHANGED <<reviews, rated, raters, late>>

TakeRatingJob(w) ==
  /\ raters[w].pc = "idle" /\ ratingJob.state = "waiting"
  /\ ratingJob' = [ratingJob EXCEPT !.state = "active"]
  /\ raters' = [raters EXCEPT ![w] = [RestingRater EXCEPT !.pc = "query", !.holds = TRUE]]
  /\ UNCHANGED <<reviews, owed, rated, late>>

(* SELECT AVG, COUNT: what is committed now.                                *)
QueryReviews(w) ==
  /\ raters[w].pc = "query"
  /\ raters' = [raters EXCEPT ![w].pc = "update", ![w].seen = reviews]
  /\ UNCHANGED <<reviews, owed, rated, ratingJob, late>>

SumOf[q \in Seq(Nat)] == IF q = <<>> THEN 0 ELSE Head(q) + SumOf[Tail(q)]

(* AVG(rating)::numeric(3,2) in hundredths, 0 without reviews.              *)
Average(q) ==
  IF q = <<>> THEN 0 ELSE (200 * SumOf[q] + Len(q)) \div (2 * Len(q))

(* UPDATE shops, also by a worker that has lost its job meanwhile.          *)
UpdateShop(w) ==
  /\ raters[w].pc = "update"
  /\ rated' = [avg |-> Average(raters[w].seen), count |-> Len(raters[w].seen)]
  /\ raters' = [raters EXCEPT ![w].pc = "finish"]
  /\ late' = (late \/ ~raters[w].holds)
  /\ UNCHANGED <<reviews, owed, ratingJob>>

(* removeOnComplete.                                                        *)
FinishRating(w) ==
  /\ raters[w].pc = "finish"
  /\ ratingJob' = IF raters[w].holds THEN NoRatingJob ELSE ratingJob
  /\ raters' = [raters EXCEPT ![w] = RestingRater]
  /\ UNCHANGED <<reviews, owed, rated, late>>

(* Mutant of the next definition: attempts are not counted.                 *)
FailRatingUncounted(w) ==
  /\ raters[w].pc \in {"query", "update", "finish"}
  /\ ratingJob' = IF raters[w].holds THEN [ratingJob EXCEPT !.state = "waiting"]
                  ELSE ratingJob
  /\ raters' = [raters EXCEPT ![w] = RestingRater]
  /\ UNCHANGED <<reviews, owed, rated, late>>

(* A query or the update throws: retried, or kept as failed (removeOnFail). *)
FailRating(w) ==
  /\ raters[w].pc \in {"query", "update", "finish"}
  /\ ratingJob' =
       IF ~raters[w].holds THEN ratingJob
       ELSE [ratingJob EXCEPT !.tries = @ + 1,
               !.state = IF ratingJob.tries + 1 < RatingAttempts
                         THEN "waiting" ELSE "failed"]
  /\ raters' = [raters EXCEPT ![w] = RestingRater]
  /\ UNCHANGED <<reviews, owed, rated, late>>

RaterDies(w) ==
  /\ raters[w].pc # "idle"
  /\ raters' = [raters EXCEPT ![w] = RestingRater]
  /\ UNCHANGED <<reviews, owed, rated, ratingJob, late>>

(* The job's lock expires: queued again, or failed the second time.  A      *)
(* worker that had it goes on.                                              *)
StallRating ==
  /\ ratingJob.state = "active"
  /\ ratingJob' = IF ratingJob.stalls = 0
                  THEN [ratingJob EXCEPT !.state = "waiting", !.stalls = 1]
                  ELSE [ratingJob EXCEPT !.state = "failed"]
  /\ raters' = [w \in Raters |-> [raters[w] EXCEPT !.holds = FALSE]]
  /\ UNCHANGED <<reviews, owed, rated, late>>

(* Later failures push the failed job out of the five that are kept.        *)
DropFailedRating ==
  /\ ratingJob.state = "failed"
  /\ ratingJob' = NoRatingJob
  /\ UNCHANGED <<reviews, owed, rated, raters, late>>

RaterStep(w) ==
  TakeRatingJob(w) \/ QueryReviews(w) \/ UpdateShop(w) \/ FinishRating(w) \/ FailRating(w)

RatingsNext ==
  \/ AddReview \/ WriterStops \/ EnqueueShopRatingRecompute
  \/ StallRating \/ DropFailedRating
  \/ \E w \in Raters : RaterStep(w) \/ RaterDies(w)

(* Workers poll their queue, their calls return or throw, and BullMQ checks *)
(* for jobs whose worker is gone.                                           *)
RatingsFairness ==
  /\ \A w \in Raters : WF_ratingsVars(RaterStep(w))
  /\ WF_ratingsVars(StallRating)

-----------------------------------------------------------------------------
(* A job that waits counts every review there is by then, unless it fails,  *)
(* which is what makes it right to refuse another job.                      *)
RatingFollowsReviews ==
  \A n \in 1..MaxReviews :
    ratingJob.state = "waiting" /\ Len(reviews) = n
      ~> rated.count >= n \/ ratingJob.state = "failed"

(* The count of a shop goes back only once a worker has written that had    *)
(* lost its job, as jobs of one id do not run beside each other.            *)
CountGoesBackLate == [][rated'.count < rated.count => late']_ratingsVars
=============================================================================
