------------------------------ MODULE Policies ------------------------------
(***************************************************************************)
(* Who may tag, mention, message and comment: SettingsService.  An owner   *)
(* has settings and followers; an actor asks.  A request reads the         *)
(* settings, then the rows of the follows and of the restricted accounts,  *)
(* and writes in the end what they allowed.                                *)
(***************************************************************************)
EXTENDS Naturals, FiniteSets

CONSTANT MaxChanges \* bounds the changes that the owner and the actor make meanwhile

VARIABLES policy,   \* whoCanTag, whoCanMention, whoCanMessage: one of them is asked at a time
          comments, \* whoCanComment
          post,     \* whether the post takes comments at all
          bond,     \* who follows whom, and whether the owner has restricted the actor
          ask       \* the state of every request

vars == <<policy, comments, post, bond, ask>>

Interaction == {"EVERYONE", "FOLLOWING", "NOBODY"}
Commenting == {"EVERYONE", "FOLLOWERS", "MUTUAL", "OFF"}

\* hidden: a word of the text is among the hidden words of the owner.
Bond == [follows : BOOLEAN, followed : BOOLEAN, restricted : BOOLEAN, hidden : BOOLEAN]

\* "interact" is a tag, a mention or a message, "aside" a mention in a comment.
Kind == {"interact", "comment", "aside"}

\* read: the policy that was read, hidden: what the words of those settings say of the text;
\* could (history): what the settings have said of it since it began, turns: how often that,
\* or what it rests on, has changed.
Asking == [at : {"start", "settings", "follows", "restricted", "words", "write", "done", "refused"},
           kind : Kind, read : Interaction \cup Commenting, hidden : BOOLEAN,
           could : SUBSET BOOLEAN, turns : 0..MaxChanges]

Unasked == [at |-> "start", kind |-> "interact", read |-> "EVERYONE", hidden |-> FALSE,
            could |-> {}, turns |-> 0]

TypeOK ==
  /\ policy \in Interaction /\ comments \in Commenting /\ post \in BOOLEAN
  /\ bond \in Bond /\ ask \in Asking

\* DEFAULTS, or any other settings the owner has made before.
Init ==
  /\ policy \in Interaction /\ comments \in Commenting /\ post \in BOOLEAN /\ bond \in Bond
  /\ ask = Unasked

-----------------------------------------------------------------------------
At(l) == ask.at = l

\* What the settings mean.
Allowed(k) ==
  CASE k = "aside"   -> TRUE
    [] k = "comment" -> /\ post /\ comments # "OFF" /\ ~bond.restricted /\ ~bond.hidden
                        /\ comments \in {"FOLLOWERS", "MUTUAL"} => bond.follows
                        /\ comments = "MUTUAL" => bond.followed
    [] OTHER         -> policy = "EVERYONE" \/ (policy = "FOLLOWING" /\ bond.followed)

Goes(l) == ask' = [ask EXCEPT !.at = l] /\ UNCHANGED <<policy, comments, post, bond>>

\* A comment is refused first if the post takes none; a mention in a comment asks nobody.
Begin(k) ==
  /\ At("start")
  /\ ask' = [Unasked EXCEPT !.kind = k, !.could = {Allowed(k)},
       !.at = CASE k = "aside" -> "write"
                [] k = "comment" /\ ~post -> "refused"
                [] OTHER -> "settings"]
  /\ UNCHANGED <<policy, comments, post, bond>>

\* passesInteraction, assertCanComment: the settings, with the words in them.
ReadSettings ==
  LET p == IF ask.kind = "comment" THEN comments ELSE policy
  IN  /\ At("settings")
      /\ ask' = [ask EXCEPT !.read = p, !.hidden = bond.hidden,
           !.at = CASE p \in {"NOBODY", "OFF"} -> "refused"
                       [] p \in {"FOLLOWING", "FOLLOWERS", "MUTUAL"} -> "follows"
                       [] p = "EVERYONE" -> IF ask.kind = "comment" THEN "restricted" ELSE "write"]
      /\ UNCHANGED <<policy, comments, post, bond>>

\* FOLLOWING are those whom the owner follows, FOLLOWERS those who follow him.
FollowsAsAsked(p) ==
  CASE p = "FOLLOWING" -> bond.followed
    [] p = "FOLLOWERS" -> bond.follows
    [] p = "MUTUAL"    -> bond.follows /\ bond.followed

ReadFollows ==
  /\ At("follows")
  /\ Goes(IF ~FollowsAsAsked(ask.read) THEN "refused"
             ELSE IF ask.kind = "comment" THEN "restricted" ELSE "write")

ReadRestricted == At("restricted") /\ Goes(IF bond.restricted THEN "refused" ELSE "words")

\* containsHiddenWord: the words that were read with the settings.
CheckWords == At("words") /\ Goes(IF ask.hidden THEN "refused" ELSE "write")

\* The tag, the mention, the message or the comment is there.
Write == At("write") /\ Goes("done")

-----------------------------------------------------------------------------
\* The settings and the rows may change while a request is handled that asks for them.
Changing ==
  /\ ask.kind # "aside" /\ ~At("start") /\ ~At("done") /\ ~At("refused") /\ ask.turns < MaxChanges
  /\ \E k \in {ask.kind} : ask' = [ask EXCEPT !.turns = @ + 1, !.could = @ \cup {Allowed(k)'}]

UpdateSettings ==
  /\ \/ /\ ask.kind = "interact" /\ policy' \in Interaction \ {policy}
        /\ UNCHANGED <<comments, bond>>
     \/ /\ ask.kind = "comment" /\ comments' \in Commenting
        /\ \E h \in BOOLEAN : bond' = [bond EXCEPT !.hidden = h]
        /\ UNCHANGED policy
  /\ UNCHANGED post
  /\ Changing

Restrict == bond' = [bond EXCEPT !.restricted = ~@] /\ UNCHANGED <<policy, comments, post>> /\ Changing

FollowChanges ==
  /\ \/ bond' = [bond EXCEPT !.follows = ~@]
     \/ bond' = [bond EXCEPT !.followed = ~@]
  /\ UNCHANGED <<policy, comments, post>>
  /\ Changing

TogglePrivacy == post' = ~post /\ UNCHANGED <<policy, comments, bond>> /\ Changing

Next ==
  \/ \E k \in Kind : Begin(k)
  \/ ReadSettings \/ ReadFollows \/ ReadRestricted \/ CheckWords \/ Write
  \/ UpdateSettings \/ Restrict \/ FollowChanges \/ TogglePrivacy

Spec == Init /\ [][Next]_vars

-----------------------------------------------------------------------------
\* canTag, canMention, canMessage, assertCanComment: the rows are read one after the other, yet
\* a request goes through only if the settings have allowed it at some moment while it was
\* handled, and is refused only if they have forbidden it at one, unless they, or what they
\* rest on, changed twice meanwhile.  The mentions in a comment always go through.
PoliciesAreObeyed ==
  [][ask.turns < 2 =>
       /\ At("write") /\ ask'.at = "done" => TRUE \in ask.could
       /\ ~At("refused") /\ ask'.at = "refused" => FALSE \in ask'.could]_vars
=============================================================================
