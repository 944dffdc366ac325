----------------------------- MODULE Verification -----------------------------
(***************************************************************************)
(* The verified badge: VerificationService and its cron.  A user gets it   *)
(* by a free trial or by paying for a period; the nightly sweep warns,     *)
(* reads who has run out, and takes the badge from those it has read.      *)
(***************************************************************************)
EXTENDS Naturals, FiniteSets

CONSTANTS User,
          Req,       \* calls of startTrial and cancel, subscribe; each one is handled once
          TrialDays, \* how long a trial lasts
          PeriodDays, \* how long a paid period lasts
          LastDay,   \* bounds time
          MaxFaults, \* how often a warning may fail
          None

VARIABLES plan,     \* the Verification row of every user
          verified, \* the users with the badge
          req,      \* the state of every request
          sweep,    \* tonight's sweep
          today,
          faults,
          trials,   \* history: how many trials each user has had
          paid,     \* history: the last day each user has paid for
          cut       \* history: whose trial has begun in the midst of a paid period

vars == <<plan, verified, req, sweep, today, faults, trials, paid, cut>>

Day == 0..(LastDay + TrialDays + PeriodDays)

Plan == [status : {"none", "TRIAL", "ACTIVE", "CANCELED", "EXPIRED"}, trialUsed : BOOLEAN,
         trialEndsAt : Day \cup {None}, currentPeriodEnd : Day \cup {None}]

\* Who a request has read, and (history) whose trial began since.
Request == [at : {"start", "trial", "cancel", "end"}, user : User \cup {None}, passed : BOOLEAN]

\* ids: who has been read as expired; renewed (history): who has begun anew since.
Sweep == [at : {"trials", "subs", "expire", "done"}, ids : SUBSET User, renewed : SUBSET User]

TypeOK ==
  /\ plan \in [User -> Plan] /\ verified \subseteq User
  /\ req \in [Req -> Request] /\ sweep \in Sweep
  /\ today \in 0..LastDay /\ faults \in 0..MaxFaults
  /\ trials \in [User -> 0..Cardinality(Req)] /\ paid \in [User -> Day] /\ cut \subseteq User

Init ==
  /\ plan = [u \in User |-> [status |-> "none", trialUsed |-> FALSE,
                             trialEndsAt |-> None, currentPeriodEnd |-> None]]
  /\ verified = {}
  /\ req = [r \in Req |-> [at |-> "start", user |-> None, passed |-> FALSE]]
  /\ sweep = [at |-> "done", ids |-> {}, renewed |-> {}]
  /\ today = 0 /\ faults = 0
  /\ trials = [u \in User |-> 0] /\ paid = [u \in User |-> 0] /\ cut = {}

-----------------------------------------------------------------------------
At(r, l) == req[r].at = l

Ended(r) == [req EXCEPT ![r].at = "end"]

\* u has the badge from now on, whatever the sweep has read.
Begin(u) ==
  /\ verified' = verified \cup {u}
  /\ sweep' = [sweep EXCEPT !.renewed = @ \cup {u}]

\* startTrial: one that has had none...
TrialRead(r) ==
  /\ At(r, "start")
  /\ \E u \in User :
       /\ ~plan[u].trialUsed
       /\ req' = [req EXCEPT ![r] = [at |-> "trial", user |-> u, passed |-> FALSE]]
  /\ UNCHANGED <<plan, verified, sweep, today, faults, trials, paid, cut>>

\* ... gets one, whatever plan there is; the badge comes in the same transaction.
StartTrial(r) ==
  LET u == req[r].user
  IN  /\ At(r, "trial")
      /\ plan' = [plan EXCEPT ![u].status = "TRIAL", ![u].trialUsed = TRUE,
                              ![u].trialEndsAt = today + TrialDays]
      /\ trials' = [trials EXCEPT ![u] = @ + 1]
      /\ cut' = IF paid[u] > today THEN cut \cup {u} ELSE cut
      /\ Begin(u)
      /\ req' = [q \in Req |->
                   IF q = r THEN [req[r] EXCEPT !.at = "end"]
                   ELSE IF At(q, "trial") /\ req[q].user = u THEN [req[q] EXCEPT !.passed = TRUE]
                   ELSE req[q]]
      /\ UNCHANGED <<today, faults, paid>>

\* subscribe: the payment, the period from today on and the badge, in one transaction.
Subscribe(r) ==
  /\ At(r, "start")
  /\ \E u \in User :
       /\ plan' = [plan EXCEPT ![u].status = "ACTIVE", ![u].currentPeriodEnd = today + PeriodDays]
       /\ paid' = [paid EXCEPT ![u] = today + PeriodDays] /\ cut' = cut \ {u}
       /\ Begin(u)
  /\ req' = Ended(r)
  /\ UNCHANGED <<today, faults, trials>>

\* cancel: a plan that runs...
CancelRead(r) ==
  /\ At(r, "start")
  /\ \E u \in User :
       /\ plan[u].status \in {"TRIAL", "ACTIVE"}
       /\ req' = [req EXCEPT ![r] = [at |-> "cancel", user |-> u, passed |-> FALSE]]
  /\ UNCHANGED <<plan, verified, sweep, today, faults, trials, paid, cut>>

\* ... is cancelled; the badge stays for the sweep to take.
Cancel(r) ==
  /\ At(r, "cancel")
  /\ plan' = [plan EXCEPT ![req[r].user].status = "CANCELED"]
  /\ req' = Ended(r)
  /\ UNCHANGED <<verified, sweep, today, faults, trials, paid, cut>>

-----------------------------------------------------------------------------
\* A night passes, and the sweep begins.
Midnight ==
  /\ sweep.at = "done" /\ today < LastDay
  /\ today' = today + 1
  /\ sweep' = [at |-> "trials", ids |-> {}, renewed |-> {}]
  /\ UNCHANGED <<plan, verified, req, faults, trials, paid, cut>>

\* sweepExpired: a warning that cannot be written ends the sweep of tonight.
WarnFails ==
  /\ sweep.at = "trials" /\ faults < MaxFaults
  /\ \E u \in User : plan[u].status = "TRIAL" /\ plan[u].trialEndsAt = today + 1
  /\ sweep' = [sweep EXCEPT !.at = "done"] /\ faults' = faults + 1
  /\ UNCHANGED <<plan, verified, req, today, trials, paid, cut>>

Reads(l, next, S) ==
  /\ sweep.at = l
  /\ sweep' = [sweep EXCEPT !.at = next, !.ids = @ \cup S, !.renewed = @ \ S]
  /\ UNCHANGED <<plan, verified, req, today, faults, trials, paid, cut>>

Due(end) == end # None /\ end <= today

ReadTrials ==
  Reads("trials", "subs", {u \in User : plan[u].status = "TRIAL" /\ Due(plan[u].trialEndsAt)})

\* Mutant: a cancelled period is taken at once.
ReadSubsCanceled ==
  Reads("subs", "expire", {u \in User : \/ plan[u].status = "CANCELED"
                                        \/ plan[u].status = "ACTIVE" /\ Due(plan[u].currentPeriodEnd)})

ReadSubs ==
  Reads("subs", "expire", {u \in User : plan[u].status \in {"ACTIVE", "CANCELED"}
                                        /\ Due(plan[u].currentPeriodEnd)})

\* The badges of those who were read go, in one transaction.
Expire ==
  /\ sweep.at = "expire"
  /\ plan' = [u \in User |-> IF u \in sweep.ids THEN [plan[u] EXCEPT !.status = "EXPIRED"] ELSE plan[u]]
  /\ verified' = verified \ sweep.ids
  /\ sweep' = [sweep EXCEPT !.at = "done"]
  /\ UNCHANGED <<req, today, faults, trials, paid, cut>>

Sweeping == ReadTrials \/ ReadSubs \/ Expire

Next ==
  \/ \E r \in Req : TrialRead(r) \/ StartTrial(r) \/ Subscribe(r) \/ CancelRead(r) \/ Cancel(r)
  \/ Midnight \/ WarnFails \/ Sweeping

\* Nights pass, and every sweep gets to its end or fails.
Spec == Init /\ [][Next]_vars /\ WF_vars(Midnight) /\ WF_vars(Sweeping)

-----------------------------------------------------------------------------
\* subscribe, cancel: a badge that is paid for stays to the end of the period, unless the user
\* paid after the sweep had read his row, or began his trial in the midst of it.
PaidBadgesStay ==
  [][\A u \in verified \ verified' :
       paid[u] <= today \/ u \in sweep.renewed \cup cut]_vars

\* startTrial: one trial for every account, unless two calls overlapped.
TrialsAreOnce == \A u \in User : trials[u] > 1 => \E r \in Req : req[r].user = u /\ req[r].passed

\* Who has used up what he was given.
Over(u) == /\ u \in verified
           /\ paid[u] <= today
           /\ plan[u].trialEndsAt = None \/ plan[u].trialEndsAt <= today

\* A trial cancelled by one who never paid has no day on which it ends.
Endless(u) == plan[u].status = "CANCELED" /\ plan[u].currentPeriodEnd = None

\* sweepExpired: who has used up his trial and his periods loses the badge, also if the sweep
\* of a night fails, unless he has cancelled a trial and never paid.
BadgesGo ==
  \A u \in User : Over(u) /\ today + MaxFaults < LastDay ~> ~Over(u) \/ Endless(u)

\* startTrial, subscribe: everybody has what he has been given or has paid for, once and to its
\* end, with the exceptions above.
TermsAreKept == []TrialsAreOnce /\ PaidBadgesStay
===============================================================================
