------------------------------- MODULE Accounts -------------------------------
(***************************************************************************)
(* What belongs to an account, side by side: whom it follows and has       *)
(* blocked (SocialGraph), its presence and its badge, which live by a      *)
(* clock (the key of Presence expires, the sweep of Verification comes     *)
(* every night), its settings, its name, and its say over the posts that   *)
(* show it.  One of the components takes its steps while the others rest   *)
(* in an initial state.                                                    *)
(***************************************************************************)
EXTENDS SocialGraph, Naturals

CONSTANTS
  Socket, TTL,                                      \* Presence
  Other,                                            \* one more account
  Call,                                             \* requests, numbered as they come
  TrialDays, PeriodDays, LastDay, MaxFaults,        \* Verification
  MaxChanges,                                       \* Policies
  Word                                              \* Names

ASSUME KeysLive == TTL \in Nat \ {0}
ASSUME DaysAreNumbers == {TrialDays, PeriodDays, LastDay, MaxFaults} \subseteq Nat /\ None \notin Nat
ASSUME CallsAreNumbered == Call \subseteq Nat
ASSUME OtherIsApart == Other \notin User /\ None \notin User \cup {Other}

VARIABLES
  part,
  sock, leave, open, room, key, isOnline, told, tangled,           \* Presence
  plan, verified, order, sweep, today, faults, trials, paid, cut,  \* Verification
  policy, comments, post, bond, ask,                               \* Policies
  name, deleted, rename, loose,                                    \* Names
  claim, standing, there, blocked, answer, word, agreed, mixed     \* Claims

Pr == INSTANCE Presence
Ve == INSTANCE Verification WITH Req <- Call, req <- order
Po == INSTANCE Policies
Na == INSTANCE Names WITH User <- User \cup {Other}, Req <- Call, req <- rename
Cl == INSTANCE Claims WITH User <- User \cup {Other}, Req <- Call, Author <- Other,
                           kind <- claim, status <- standing, post <- there, req <- answer

pvars == <<sock, leave, open, room, key, isOnline, told, tangled>>
vvars == <<plan, verified, order, sweep, today, faults, trials, paid, cut>>
svars == <<policy, comments, post, bond, ask>>
nvars == <<name, deleted, rename, loose>>
cvars == <<claim, standing, there, blocked, answer, word, agreed, mixed>>
timeless == <<vars, svars, nvars, cvars>>
accountvars == <<part,
                 follow, block, close, private, req, late, saw,
                 sock, leave, open, room, key, isOnline, told, tangled,
                 plan, verified, order, sweep, today, faults, trials, paid, cut,
                 policy, comments, post, bond, ask,
                 name, deleted, rename, loose,
                 claim, standing, there, blocked, answer, word, agreed, mixed>>

\* A component at rest: in one of its initial states, for want of a step always the same one.
AtRest ==
  /\ part # "graph" => /\ follow = [i \in Row |-> NoFollow]
                       /\ block = {} /\ close = {} /\ private = {}
  /\ part # "policies" => /\ policy = "EVERYONE" /\ comments = "EVERYONE" /\ post = TRUE
                          /\ bond = [follows |-> FALSE, followed |-> FALSE, restricted |-> FALSE, hidden |-> FALSE]
  /\ part # "claims" => claim = "collab"

AccountsInit ==
  /\ part \in {"graph", "presence", "verification", "policies", "names", "claims"} /\ AtRest
  /\ Init /\ Pr!Init /\ Ve!Init /\ Po!Init /\ Na!Init /\ Cl!Init

Befriends == part = "graph" /\ Next /\ UNCHANGED <<pvars, vvars, svars, nvars, cvars>>
Connects == part = "presence" /\ Pr!Next /\ UNCHANGED <<vvars, timeless>>
Pays     == part = "verification" /\ Ve!Next /\ UNCHANGED <<pvars, timeless>>
Asks     == part = "policies" /\ Po!Next /\ UNCHANGED <<vars, pvars, vvars, nvars, cvars>>
Renames  == part = "names" /\ Na!Next /\ UNCHANGED <<vars, pvars, vvars, svars, cvars>>
Answers  == part = "claims" /\ Cl!Next /\ UNCHANGED <<vars, pvars, vvars, svars, nvars>>

AccountsNext == (Befriends \/ Connects \/ Pays \/ Asks \/ Renames \/ Answers) /\ UNCHANGED part

\* The fairness of the component that takes its steps.
Fairness ==
  /\ \A s \in Socket :
       /\ WF_accountvars(part = "presence" /\ Pr!Handle(s) /\ Pr!Tangle /\ UNCHANGED <<part, vvars, timeless>>)
       /\ WF_accountvars(part = "presence" /\ Pr!Heartbeat(s) /\ Pr!Tangle /\ UNCHANGED <<part, vvars, timeless>>)
  /\ WF_accountvars(part = "presence" /\ Pr!Tick /\ Pr!Tangle /\ UNCHANGED <<part, vvars, timeless>>)
  /\ WF_accountvars(part = "verification" /\ Ve!Midnight /\ UNCHANGED <<part, pvars, timeless>>)
  /\ WF_accountvars(part = "verification" /\ Ve!Sweeping /\ UNCHANGED <<part, pvars, timeless>>)

AccountsSpec == AccountsInit /\ [][AccountsNext]_accountvars /\ Fairness

\* The properties of the components, each explained where it is defined.
OthersKnow == Pr!OthersKnow
TermsAreKept == Ve!TermsAreKept

\* handleConnection, the heartbeat, the nightly sweep: a key comes back while there is a heartbeat and
\* expires without one, and a badge that nobody pays for any longer goes.
ClocksAreObeyed == Pr!TheKeyHeals /\ Ve!BadgesGo

\* SettingsService, register, update: what is granted was allowed at some moment of the request, and
\* what is refused was forbidden, by the settings or by another who has the name.
AnswersAreJustified == Po!PoliciesAreObeyed /\ Na!RefusalsAreExplained

\* findByUserName, linkMentions, acceptTag, respondCollaborator: one page per name, and the last word
\* of each user on whether he is shown.
ProfilesAgree == (part = "names" => Na!NamesAreKeptApart) /\ (part = "claims" => Cl!AnswersStand)
===============================================================================
