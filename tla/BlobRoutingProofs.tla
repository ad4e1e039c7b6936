------------------------- MODULE BlobRoutingProofs -------------------------
(* What the routing of one blob guarantees, for any readers, checkers and  *)
(* workers, any false claims and any number of rounds.                     *)
EXTENDS BlobRouting, TLAPS

EnsureStates == {"idle", "hint", "blooms", "probe", "answers", "seed", "fetch", "keep", "evict"}
HasStates    == {"idle", "pick", "ask", "note", "ask2", "note2"}

----------------------------------------------------------------------------
(* Types                                                                   *)

LEMMA BlankType ==
  ASSUME SetsAssumption, NEW at \in Ats, NEW said \in {"yes", "no", "error", None},
         NEW owner \in Workers \cup {None}, NEW since \in SUBSET Workers,
         NEW known \in SUBSET Workers, NEW seen \in BOOLEAN
  PROVE  Blank(at, said, owner, since, known, seen) \in CallState
<1>1. 1 \in 1..Rounds
  BY DEF SetsAssumption
<1> QED
  BY <1>1 DEF Blank, CallState

LEMMA ReturnedType ==
  ASSUME SetsAssumption, NEW s \in CallState, NEW a \in {"yes", "no", "error"}
  PROVE  Returned(s, a) \in CallState
<1>1. /\ s.owner \in Workers \cup {None} /\ s.seen \in BOOLEAN
      /\ s.since \in SUBSET Workers /\ s.known \in SUBSET Workers
  BY DEF CallState
<1> QED
  BY <1>1, BlankType DEF Returned, Ats

LEMMA AskingType ==
  ASSUME TypeOK, NEW c \in Calls, NEW w \in Workers, NEW at \in Ats
  PROVE  Asking(c, w, at) \in CallState
<1>1. call[c] \in CallState
  BY DEF TypeOK
<1> DEFINE s == call[c]
           rest == IF s.lead = None THEN s.rest \ {w} ELSE s.rest
<1>2. rest \in SUBSET Workers
  BY <1>1 DEF CallState
<1>3. Asking(c, w, at) = [s EXCEPT !.at = at, !.asked = w, !.lead = None, !.rest = rest]
  BY <1>1 DEF Asking, CallState
<1> HIDE DEF s, rest
<1> QED
  BY <1>1, <1>2, <1>3 DEF CallState, s

LEMMA OpenedType ==
  ASSUME SetsAssumption, TypeOK, NEW at \in Ats, NEW owner \in Workers \cup {None},
         NEW known \in SUBSET Workers
  PROVE  Opened(at, owner, known) \in CallState
<1>1. listed \cap Holders \in SUBSET Workers /\ (local \/ Holders # {}) \in BOOLEAN
  BY DEF TypeOK, Holders
<1> QED
  BY <1>1, BlankType DEF Opened

\* A step that makes a call become s touches no other call.
LEMMA BecomeType ==
  ASSUME TypeOK, NEW c \in Calls, NEW s \in CallState, Become(c, s)
  PROVE  call' \in [Calls -> CallState]
BY DEF Become, TypeOK

LEMMA EnsureTyped ==
  ASSUME SetsAssumption, TypeOK, NEW c \in Calls, Ensure(c) \/ EnsureStep(c)
  PROVE  TypeOK'
<1>0. call[c] \in CallState
  BY DEF TypeOK
<1> DEFINE Typed == \E s \in CallState :
      /\ Become(c, s) /\ hint' \in Workers \cup {None} /\ local' \in BOOLEAN
      /\ UNCHANGED <<fleetVars, claims>>
<1>a. SUFFICES Typed
  BY BecomeType DEF TypeOK, fleetVars
<1>1. CASE Ensure(c)
  <2> DEFINE opened == Opened("hint", None, listed \cap Holders \cap claims)
  <2>1. opened \in CallState
    BY OpenedType DEF Ats, TypeOK, Holders
  <2>2. Returned(opened, "yes") \in CallState
    BY <2>1, ReturnedType
  <2> QED
    BY <1>1, <2>1, <2>2 DEF Ensure, TypeOK
<1>2. CASE ReadHint(c)
  <2>1. [call[c] EXCEPT !.at = "blooms", !.lead = hint, !.clean = TRUE] \in CallState
    BY <1>0 DEF CallState, Ats, TypeOK
  <2> QED
    BY <1>2, <2>1 DEF ReadHint, TypeOK
<1>3. CASE ReadBlooms(c)
  <2>1. \A rest \in SUBSET Workers, at \in Ats :
          [call[c] EXCEPT !.rest = rest, !.at = at] \in CallState
    BY <1>0 DEF CallState
  <2>2. claims \in SUBSET Workers /\ claims \ {call[c].lead} \in SUBSET Workers
    BY DEF TypeOK
  <2> QED
    BY <1>3, <2>1, <2>2 DEF ReadBlooms, TypeOK, Ats
<1>4. CASE Probe(c)
  <2>1. [call[c] EXCEPT !.at = "answers", !.rest = listed] \in CallState
    BY <1>0 DEF CallState, Ats, TypeOK
  <2> QED
    BY <1>4, <2>1 DEF Probe, TypeOK
<1>5. CASE Answers(c)
  <2>1. PICK yes \in SUBSET (call[c].rest \cap Holders) :
          LET heard == [call[c] EXCEPT !.rest = {}, !.since = @ \ (call[c].rest \ yes)] IN
          IF yes = {}
            THEN Become(c, Returned(heard, IF heard.failed THEN "error" ELSE "no"))
            ELSE \E w \in yes : Become(c, [heard EXCEPT !.at = "seed", !.lead = w])
    BY <1>5 DEF Answers
  <2> DEFINE heard == [call[c] EXCEPT !.rest = {}, !.since = @ \ (call[c].rest \ yes)]
  <2>2. heard \in CallState /\ yes \subseteq Workers
    BY <1>0 DEF CallState, Holders
  <2>3. Returned(heard, IF heard.failed THEN "error" ELSE "no") \in CallState
    BY <2>2, ReturnedType DEF CallState
  <2>4. \A w \in yes : [heard EXCEPT !.at = "seed", !.lead = w] \in CallState
    BY <2>2 DEF CallState, Ats
  <2>5. \E s \in CallState : Become(c, s)
    BY <2>1, <2>3, <2>4
  <2> QED
    BY <1>5, <2>5 DEF Answers, TypeOK
<1>6. CASE Seed(c)
  <2>1. [call[c] EXCEPT !.at = "fetch"] \in CallState /\ call[c].lead \in Workers \cup {None}
    BY <1>0 DEF CallState, Ats
  <2> QED
    BY <1>6, <2>1 DEF Seed, Goto, TypeOK
<1>7. CASE Keep(c)
  <2>1. Returned(call[c], "yes") \in CallState /\ call[c].asked \in Workers \cup {None}
    BY <1>0, ReturnedType DEF CallState
  <2> QED
    BY <1>7, <2>1 DEF Keep, Say, TypeOK
<1>8. CASE Evict(c)
  <2>1. [call[c] EXCEPT !.at = "fetch", !.asked = None] \in CallState
    BY <1>0 DEF CallState, Ats
  <2> QED
    BY <1>8, <2>1 DEF Evict, TypeOK
<1>9. CASE EndRound(c)
  <2>1. CASE call[c].clean \/ call[c].round = Rounds
    <3>1. Returned(call[c], IF call[c].failed THEN "error" ELSE "no") \in CallState
      BY <1>0, ReturnedType
    <3> QED
      BY <1>9, <2>1, <3>1 DEF EndRound, Say, TypeOK
  <2>2. CASE ~(call[c].clean \/ call[c].round = Rounds)
    <3>1. call[c].round + 1 \in 1..Rounds
      BY <1>0, <2>2 DEF CallState, SetsAssumption
    <3>2. [call[c] EXCEPT !.at = "hint", !.round = @ + 1] \in CallState
      BY <1>0, <3>1 DEF CallState, Ats
    <3> QED
      BY <1>9, <2>2, <3>2 DEF EndRound, TypeOK
  <2> QED
    BY <2>1, <2>2
<1>10. ASSUME NEW w \in Workers, FetchFound(c, w) \/ FetchDenied(c, w) \/ FetchFails(c, w)
       PROVE  Typed
  <2>1. /\ Asking(c, w, "keep") \in CallState /\ Asking(c, w, "evict") \in CallState
        /\ Asking(c, w, "fetch") \in CallState
    BY AskingType DEF Ats
  <2>2. [Asking(c, w, "fetch") EXCEPT !.asked = None, !.failed = TRUE, !.clean = FALSE] \in CallState
    BY <2>1 DEF CallState
  <2> QED
    BY <1>10, <2>1, <2>2 DEF FetchFound, FetchDenied, FetchFails, TypeOK
<1> QED
  BY <1>1, <1>2, <1>3, <1>4, <1>5, <1>6, <1>7, <1>8, <1>9, <1>10 DEF EnsureStep

LEMMA HasTyped ==
  ASSUME SetsAssumption, TypeOK, NEW c \in Calls, Has(c) \/ HasStep(c)
  PROVE  TypeOK'
<1>0. call[c] \in CallState
  BY DEF TypeOK
<1> DEFINE Typed == \E s \in CallState :
      /\ Become(c, s) /\ hint' \in Workers \cup {None} /\ local' \in BOOLEAN
      /\ UNCHANGED <<fleetVars, claims>>
<1>a. SUFFICES Typed
  BY BecomeType DEF TypeOK, fleetVars
<1>b. /\ Returned(call[c], "yes") \in CallState /\ Returned(call[c], "no") \in CallState
      /\ call[c].owner \in Workers \cup {None} /\ call[c].asked \in Workers \cup {None}
  BY <1>0, ReturnedType DEF CallState
<1>1. CASE Has(c)
  <2>1. \A owner \in Workers \cup {None} : Opened("pick", owner, {}) \in CallState
    BY OpenedType DEF Ats
  <2>2. Owners \cap listed \subseteq Workers
    BY DEF TypeOK
  <2> QED
    BY <1>1, <2>1, <2>2 DEF Has, TypeOK
<1>2. CASE Pick(c)
  <2>1. \A w \in Workers \cup {None} : [call[c] EXCEPT !.at = "ask", !.asked = w] \in CallState
    BY <1>0 DEF CallState, Ats
  <2> QED
    BY <1>2, <1>b, <2>1 DEF Pick, Say, TypeOK
<1>3. ASSUME NEW at, NEW next \in Ats, Ask(c, at, next) PROVE Typed
  <2>1. \A ok \in BOOLEAN, since \in SUBSET Workers :
          [call[c] EXCEPT !.at = next, !.ok = ok, !.since = since] \in CallState
    BY <1>0 DEF CallState
  <2>2. call[c].since \in SUBSET Workers /\ call[c].since \ {call[c].asked} \in SUBSET Workers
    BY <1>0 DEF CallState
  <2> QED
    BY <1>3, <2>1, <2>2 DEF Ask, TypeOK
<1>4. CASE Note(c)
  <2>1. [call[c] EXCEPT !.at = "ask2", !.asked = call[c].owner] \in CallState
    BY <1>0, <1>b DEF CallState, Ats
  <2> QED
    BY <1>4, <1>b, <2>1 DEF Note, Say, TypeOK
<1>5. CASE NoteOwner(c)
  BY <1>5, <1>b DEF NoteOwner, Say, TypeOK
<1> QED
  BY <1>1, <1>2, <1>3, <1>4, <1>5 DEF HasStep, Ats

LEMMA FleetTyped ==
  ASSUME TypeOK, NEW w \in Workers, FleetStep(w)
  PROVE  TypeOK'
<1>1. CASE Join(w) \/ Gossip(w) \/ Done(w) \/ Leave(w)
  BY <1>1 DEF Join, Gossip, Done, Leave, TypeOK, fleetVars
<1>2. CASE Produce(w)
  <2>1. \A c \in Calls : [call[c] EXCEPT !.seen = TRUE] \in CallState
    BY DEF TypeOK, CallState
  <2> QED
    BY <1>2, <2>1 DEF Produce, TypeOK
<1>3. CASE Forget(w) \/ Die(w)
  <2>1. \A c \in Calls : [call[c] EXCEPT !.since = @ \ {w}, !.known = @ \ {w}] \in CallState
    BY DEF TypeOK, CallState
  <2> QED
    BY <1>3, <2>1 DEF Forget, Die, Lost, TypeOK
<1> QED
  BY <1>1, <1>2, <1>3 DEF FleetStep

LEMMA TypeStep ==
  ASSUME SetsAssumption, TypeOK, [Next]_vars
  PROVE  TypeOK'
<1>1. CASE UNCHANGED vars
  BY <1>1 DEF vars, TypeOK
<1>2. CASE Calm
  BY <1>2 DEF Calm, TypeOK
<1> QED
  BY <1>1, <1>2, EnsureTyped, HasTyped, FleetTyped DEF Next

LEMMA TypeInit == SetsAssumption /\ Init => TypeOK
<1> SUFFICES ASSUME SetsAssumption, Init PROVE TypeOK
  OBVIOUS
<1>1. Blank("idle", None, None, {}, {}, FALSE) \in CallState
  BY BlankType DEF Ats
<1>2. call \in [Calls -> CallState]
  BY <1>1 DEF Init
<1> QED
  BY <1>2 DEF Init, TypeOK, SetsAssumption

\* Type correctness of the routing.
THEOREM TypeCorrect == Spec => []TypeOK
<1>1. TypeOK /\ [Next]_vars => TypeOK'
  BY TypeStep, SetsAssumption
<1> QED
  BY <1>1, TypeInit, SetsAssumption, PTL DEF Spec
----------------------------------------------------------------------------
(* Safety                                                                  *)

\* The round in progress still has to ask every known holder, unless a fetch
\* failed and the answer can only be an error.
ReaderInv(c) ==
  /\ call[c].at \in EnsureStates
  /\ call[c].known \subseteq claims \cap Holders
  /\ call[c].at = "fetch" => call[c].failed \/ call[c].known \subseteq call[c].rest \cup {call[c].lead}
  /\ call[c].at = "evict" => call[c].failed \/ call[c].known \subseteq call[c].rest
  /\ call[c].at \in {"probe", "answers", "seed"} => call[c].failed \/ call[c].known = {}
  /\ Answered(c, "no") => call[c].known = {}

\* Whoever denied the blob is out of since, and the second to be asked is the
\* owner; a call that runs has noticed whoever has the blob.
CheckerInv(c) ==
  /\ call[c].at \in HasStates
  /\ call[c].at \in {"note", "note2"} => call[c].ok \/ call[c].asked \notin call[c].since
  /\ call[c].at \in {"ask2", "note2"} => call[c].asked = call[c].owner
  /\ Answered(c, "no") => call[c].owner \notin call[c].since
  /\ call[c].at # "idle" /\ (local \/ Holders # {}) => call[c].seen = TRUE
  /\ call[c].at \in {"note", "note2"} /\ call[c].ok => call[c].seen = TRUE
  /\ Answered(c, "yes") => call[c].seen = TRUE

\* What a call does is not a concern of the others.
LEMMA BecomeOther ==
  ASSUME NEW c, NEW d \in Calls, NEW s, d # c, TypeOK, Become(c, s)
  PROVE  call'[d] = call[d]
BY DEF Become, TypeOK

LEMMA BecomeSelf ==
  ASSUME NEW c \in Calls, NEW s, TypeOK, Become(c, s)
  PROVE  call'[c] = s
BY DEF Become, TypeOK

\* A reader's own step.
LEMMA ReaderSelf ==
  ASSUME SetsAssumption, TypeOK, NEW c \in Readers, ReaderInv(c),
         Ensure(c) \/ EnsureStep(c) \/ Has(c) \/ HasStep(c)
  PROVE  ReaderInv(c)'
<1>0. c \in Calls /\ call[c] \in CallState /\ c \notin Checkers
  BY DEF TypeOK, Calls, SetsAssumption
<1> DEFINE Inv(s) ==
      /\ s.at \in EnsureStates
      /\ s.known \subseteq claims \cap Holders
      /\ s.at = "fetch" => s.failed \/ s.known \subseteq s.rest \cup {s.lead}
      /\ s.at = "evict" => s.failed \/ s.known \subseteq s.rest
      /\ s.at \in {"probe", "answers", "seed"} => s.failed \/ s.known = {}
      /\ s.at = "idle" /\ s.said = "no" => s.known = {}
<1>1. ASSUME NEW s, Become(c, s), Inv(s), UNCHANGED <<claims, up, holds>>
      PROVE  ReaderInv(c)'
  <2>1. call'[c] = s
    BY <1>0, <1>1, BecomeSelf
  <2> QED
    BY <1>1, <2>1 DEF ReaderInv, Answered, Step, Holders
<1>2. \A a : /\ Returned(call[c], a).at = "idle" /\ Returned(call[c], a).said = a
             /\ Returned(call[c], a).known = call[c].known
  BY DEF Returned, Blank
<1>3. \A a \in {"yes", "error"} : Inv(Returned(call[c], a))
  BY <1>2 DEF ReaderInv, EnsureStates
<1>4. call[c].known = {} => Inv(Returned(call[c], "no"))
  BY <1>2 DEF ReaderInv, EnsureStates
<1>5. CASE Ensure(c)
  <2> DEFINE opened == Opened("hint", None, listed \cap Holders \cap claims)
  <2>1. Inv(opened) /\ Inv(Returned(opened, "yes"))
    BY DEF Opened, Returned, Blank, EnsureStates
  <2> QED
    BY <1>1, <1>5, <2>1 DEF Ensure, fleetVars
<1>6. CASE ReadHint(c)
  <2>1. Inv([call[c] EXCEPT !.at = "blooms", !.lead = hint, !.clean = TRUE])
    BY <1>0 DEF ReaderInv, CallState, EnsureStates
  <2> QED
    BY <1>1, <1>6, <2>1 DEF ReadHint, fleetVars
<1>7. CASE ReadBlooms(c)
  <2>1. PICK rest \in {claims, claims \ {call[c].lead}} :
          Become(c, [call[c] EXCEPT
            !.rest = rest,
            !.at = IF call[c].lead = None /\ rest = {} THEN "probe" ELSE "fetch"])
    BY <1>7 DEF ReadBlooms
  <2>2. call[c].known \subseteq rest \cup {call[c].lead}
    BY DEF ReaderInv
  <2>3. call[c].known \subseteq Workers /\ None \notin Workers
    BY <1>0 DEF CallState, SetsAssumption
  <2>4. Inv([call[c] EXCEPT
            !.rest = rest,
            !.at = IF call[c].lead = None /\ rest = {} THEN "probe" ELSE "fetch"])
    <3>1. CASE call[c].lead = None /\ rest = {}
      <4>1. call[c].known = {}
        BY <2>2, <2>3, <3>1
      <4> QED
        BY <1>0, <3>1, <4>1 DEF ReaderInv, CallState, EnsureStates
    <3>2. CASE ~(call[c].lead = None /\ rest = {})
      BY <1>0, <2>2, <3>2 DEF ReaderInv, CallState, EnsureStates
    <3> QED
      BY <3>1, <3>2
  <2> QED
    BY <1>1, <1>7, <2>1, <2>4 DEF ReadBlooms, fleetVars
<1>8. CASE Probe(c)
  <2>1. Inv([call[c] EXCEPT !.at = "answers", !.rest = listed])
    BY <1>0, <1>8 DEF Probe, Step, ReaderInv, CallState, EnsureStates
  <2> QED
    BY <1>1, <1>8, <2>1 DEF Probe, fleetVars
<1>9. CASE Answers(c)
  <2>1. PICK yes \in SUBSET (call[c].rest \cap Holders) :
          LET heard == [call[c] EXCEPT !.rest = {}, !.since = @ \ (call[c].rest \ yes)] IN
          IF yes = {}
            THEN Become(c, Returned(heard, IF heard.failed THEN "error" ELSE "no"))
            ELSE \E w \in yes : Become(c, [heard EXCEPT !.at = "seed", !.lead = w])
    BY <1>9 DEF Answers
  <2> DEFINE heard == [call[c] EXCEPT !.rest = {}, !.since = @ \ (call[c].rest \ yes)]
  <2>2. /\ heard \in CallState /\ heard.known = call[c].known
        /\ heard.failed = call[c].failed /\ heard.said = call[c].said
    BY <1>0 DEF CallState
  <2>3. heard.failed \/ heard.known = {}
    BY <1>9, <2>2 DEF Answers, Step, ReaderInv
  <2> HIDE DEF heard
  <2>4. Inv(Returned(heard, IF heard.failed THEN "error" ELSE "no"))
    BY <2>2, <2>3 DEF Returned, Blank, ReaderInv, EnsureStates
  <2>5. \A w : Inv([heard EXCEPT !.at = "seed", !.lead = w])
    BY <2>2, <2>3 DEF ReaderInv, EnsureStates, CallState
  <2>6. \E s : Become(c, s) /\ Inv(s)
    BY <2>1, <2>4, <2>5 DEF heard
  <2> QED
    BY <1>1, <1>9, <2>6 DEF Answers, fleetVars
<1>10. CASE Seed(c)
  <2>1. Inv([call[c] EXCEPT !.at = "fetch"])
    BY <1>0, <1>10 DEF Seed, Step, ReaderInv, CallState, EnsureStates
  <2> QED
    BY <1>1, <1>10, <2>1 DEF Seed, Goto, fleetVars
<1>11. CASE Keep(c)
  BY <1>1, <1>3, <1>11 DEF Keep, Say, fleetVars
<1>12. CASE Evict(c)
  <2>1. Inv([call[c] EXCEPT !.at = "fetch", !.asked = None])
    BY <1>0, <1>12 DEF Evict, Step, ReaderInv, CallState, EnsureStates
  <2> QED
    BY <1>1, <1>12, <2>1 DEF Evict, fleetVars
<1>13. CASE EndRound(c)
  <2>1. call[c].failed \/ call[c].known = {}
    <3>1. call[c].failed \/ call[c].known \subseteq {None}
      BY <1>13 DEF EndRound, Step, ReaderInv
    <3>2. call[c].known \subseteq Workers /\ None \notin Workers
      BY <1>0 DEF CallState, SetsAssumption
    <3> QED
      BY <3>1, <3>2
  <2>2. Inv(Returned(call[c], IF call[c].failed THEN "error" ELSE "no"))
    <3>1. CASE call[c].failed
      BY <1>3, <3>1
    <3>2. CASE ~call[c].failed
      BY <1>4, <2>1, <3>2
    <3> QED
      BY <3>1, <3>2
  <2>3. Inv([call[c] EXCEPT !.at = "hint", !.round = @ + 1])
    BY <1>0 DEF ReaderInv, CallState, EnsureStates
  <2> QED
    BY <1>1, <1>13, <2>2, <2>3 DEF EndRound, Say, fleetVars
<1>14. ASSUME NEW w \in Workers, FetchFound(c, w) PROVE ReaderInv(c)'
  <2> DEFINE s == Asking(c, w, "keep")
  <2>1. s.at = "keep" /\ s.known = call[c].known
    BY <1>0 DEF Asking, CallState
  <2>2. Become(c, s) /\ UNCHANGED <<claims, up, holds>>
    BY <1>14 DEF FetchFound, fleetVars
  <2> HIDE DEF s
  <2>3. Inv(s)
    BY <2>1 DEF ReaderInv, EnsureStates
  <2> QED
    BY <1>1, <2>2, <2>3
<1>15. ASSUME NEW w \in Workers, FetchDenied(c, w) PROVE ReaderInv(c)'
  <2>1. w \notin call[c].known
    BY <1>15 DEF FetchDenied, ReaderInv, Holders
  <2>2. call[c].failed \/ call[c].known \subseteq call[c].rest \cup {call[c].lead}
    BY <1>15 DEF FetchDenied, Step, ReaderInv
  <2>3. call[c].known \subseteq Workers /\ None \notin Workers
    BY <1>0 DEF CallState, SetsAssumption
  <2> DEFINE s == Asking(c, w, "evict")
  <2>4. /\ s.at = "evict" /\ s.known = call[c].known /\ s.failed = call[c].failed
        /\ s.rest = IF call[c].lead = None THEN call[c].rest \ {w} ELSE call[c].rest
    BY <1>0 DEF Asking, CallState
  <2>5. Become(c, s) /\ UNCHANGED <<claims, up, holds>>
    BY <1>15 DEF FetchDenied, fleetVars
  <2> HIDE DEF s
  <2>6. s.failed \/ s.known \subseteq s.rest
    BY <1>15, <2>1, <2>2, <2>3, <2>4 DEF FetchDenied, Candidate
  <2>7. Inv(s)
    BY <2>4, <2>6 DEF ReaderInv, EnsureStates
  <2> QED
    BY <1>1, <2>5, <2>7
<1>16. ASSUME NEW w \in Workers, FetchFails(c, w) PROVE ReaderInv(c)'
  <2> DEFINE s == [Asking(c, w, "fetch") EXCEPT !.asked = None, !.failed = TRUE, !.clean = FALSE]
  <2>1. Asking(c, w, "fetch") \in CallState
    BY <1>0, AskingType DEF Ats
  <2>2. s.at = "fetch" /\ s.failed /\ s.known = call[c].known
    BY <1>0, <2>1 DEF Asking, CallState
  <2>3. Become(c, s) /\ UNCHANGED <<claims, up, holds>>
    BY <1>16 DEF FetchFails, fleetVars
  <2> HIDE DEF s
  <2>4. Inv(s)
    BY <2>2 DEF ReaderInv, EnsureStates
  <2> QED
    BY <1>1, <2>3, <2>4
<1>17. ~Has(c) /\ ~HasStep(c)
  BY <1>0 DEF Has, HasStep, Pick, Ask, Note, NoteOwner, Step, ReaderInv, EnsureStates
<1> QED
  BY <1>5, <1>6, <1>7, <1>8, <1>9, <1>10, <1>11, <1>12, <1>13, <1>14, <1>15, <1>16, <1>17
     DEF EnsureStep

\* The step of a call changes that call, the hint and the driver's copy.
LEMMA CallSteps ==
  ASSUME NEW d \in Calls, Ensure(d) \/ EnsureStep(d) \/ Has(d) \/ HasStep(d)
  PROVE  (\E s : Become(d, s)) /\ UNCHANGED <<fleetVars, claims>>
<1>1. CASE Ensure(d)
  BY <1>1 DEF Ensure
<1>2. CASE Has(d)
  BY <1>2 DEF Has
<1>3. CASE ReadHint(d) \/ ReadBlooms(d) \/ Probe(d) \/ Seed(d) \/ Keep(d) \/ Evict(d) \/ EndRound(d)
  BY <1>3 DEF ReadHint, ReadBlooms, Probe, Seed, Goto, Keep, Say, Evict, EndRound
<1>4. CASE Answers(d)
  <2>1. PICK yes :
          LET heard == [call[d] EXCEPT !.rest = {}, !.since = @ \ (call[d].rest \ yes)] IN
          IF yes = {}
            THEN Become(d, Returned(heard, IF heard.failed THEN "error" ELSE "no"))
            ELSE \E w \in yes : Become(d, [heard EXCEPT !.at = "seed", !.lead = w])
    BY <1>4 DEF Answers
  <2> QED
    BY <1>4, <2>1 DEF Answers
<1>5. ASSUME NEW w, FetchFound(d, w) \/ FetchDenied(d, w) \/ FetchFails(d, w)
      PROVE  (\E s : Become(d, s)) /\ UNCHANGED <<fleetVars, claims>>
  BY <1>5 DEF FetchFound, FetchDenied, FetchFails
<1>6. CASE HasStep(d)
  BY <1>6 DEF HasStep, Pick, Ask, Note, NoteOwner, Say
<1> QED
  BY <1>1, <1>2, <1>3, <1>4, <1>5, <1>6 DEF EnsureStep

\* The fleet takes known holders out of a call, and never adds any.
LEMMA ReaderFleet ==
  ASSUME TypeOK, NEW c \in Readers, ReaderInv(c), NEW w \in Workers, FleetStep(w)
  PROVE  ReaderInv(c)'
<1>0. c \in Calls /\ call[c] \in CallState
  BY DEF TypeOK, Calls
<1>1. CASE Join(w) \/ Done(w)
  BY <1>1 DEF Join, Done, ReaderInv, Answered, Step, Holders
<1>2. CASE Gossip(w)
  <2>1. call[c].known \subseteq claims' \cap Holders
    BY <1>2 DEF Gossip, ReaderInv, Holders
  <2> QED
    BY <1>2, <2>1 DEF Gossip, fleetVars, ReaderInv, Answered, Step, Holders
<1>3. CASE Leave(w)
  <2>1. call[c].known \subseteq claims' \cap Holders
    BY <1>3 DEF Leave, ReaderInv, Holders
  <2> QED
    BY <1>3, <2>1 DEF Leave, ReaderInv, Answered, Step, Holders
<1>4. CASE Produce(w)
  <2>1. call'[c] = [call[c] EXCEPT !.seen = TRUE]
    BY <1>0, <1>4 DEF Produce
  <2>2. /\ call'[c].at = call[c].at /\ call'[c].known = call[c].known
        /\ call'[c].rest = call[c].rest /\ call'[c].lead = call[c].lead
        /\ call'[c].failed = call[c].failed /\ call'[c].said = call[c].said
    BY <1>0, <2>1 DEF CallState
  <2>3. claims' = claims /\ Holders \subseteq Holders'
    BY <1>4 DEF Produce, Holders
  <2> QED
    BY <2>2, <2>3 DEF ReaderInv, Answered, Step
<1>5. CASE Forget(w) \/ Die(w)
  <2>1. call'[c] = [call[c] EXCEPT !.since = @ \ {w}, !.known = @ \ {w}]
    BY <1>0, <1>5 DEF Forget, Die, Lost
  <2>2. /\ call'[c].at = call[c].at /\ call'[c].known = call[c].known \ {w}
        /\ call'[c].rest = call[c].rest /\ call'[c].lead = call[c].lead
        /\ call'[c].failed = call[c].failed /\ call'[c].said = call[c].said
    BY <1>0, <2>1 DEF CallState
  <2>3. claims' = claims /\ Holders \ {w} \subseteq Holders'
    BY <1>5 DEF Forget, Die, Holders
  <2> QED
    BY <2>2, <2>3 DEF ReaderInv, Answered, Step
<1> QED
  BY <1>1, <1>2, <1>3, <1>4, <1>5 DEF FleetStep

LEMMA ReaderStep ==
  ASSUME SetsAssumption, TypeOK, NEW c \in Readers, ReaderInv(c), [Next]_vars
  PROVE  ReaderInv(c)'
<1>0. c \in Calls
  BY DEF Calls
<1>1. CASE UNCHANGED vars
  BY <1>1 DEF vars, ReaderInv, Answered, Step, Holders
<1>2. CASE Calm
  BY <1>2 DEF Calm, ReaderInv, Answered, Step, Holders
<1>3. ASSUME NEW d \in Calls, d # c, Ensure(d) \/ EnsureStep(d) \/ Has(d) \/ HasStep(d)
      PROVE  ReaderInv(c)'
  <2>1. call'[c] = call[c] /\ UNCHANGED <<fleetVars, claims>>
    BY <1>0, <1>3, CallSteps, BecomeOther
  <2> QED
    BY <2>1 DEF fleetVars, ReaderInv, Answered, Step, Holders
<1> QED
  BY <1>1, <1>2, <1>3, ReaderSelf, ReaderFleet DEF Next

\* A read never says Missing of a blob that a connected worker has held, and
\* its bloom has claimed, since the read began: as long as no fetch has
\* failed, the round still has every such worker before it, and after a
\* failure ensure_blob_local answers with an error.
THEOREM KnownHoldersFound == Spec => []KnownHoldersAreNeverMissed
<1> DEFINE Inv == TypeOK /\ \A c \in Readers : ReaderInv(c)
<1>1. Init => Inv
  <2> SUFFICES ASSUME Init, NEW c \in Readers PROVE ReaderInv(c)
    BY TypeInit, SetsAssumption
  <2>1. call[c] = Blank("idle", None, None, {}, {}, FALSE)
    BY DEF Init, Calls
  <2> QED
    BY <2>1 DEF Blank, ReaderInv, Answered, Step, EnsureStates
<1>2. Inv /\ [Next]_vars => Inv'
  BY SetsAssumption, TypeStep, ReaderStep
<1>3. Inv => KnownHoldersAreNeverMissed
  BY DEF ReaderInv, KnownHoldersAreNeverMissed
<1> QED
  BY <1>1, <1>2, <1>3, PTL DEF Spec

\* A checker's own step.
LEMMA CheckerSelf ==
  ASSUME SetsAssumption, TypeOK, NEW c \in Checkers, CheckerInv(c),
         Ensure(c) \/ EnsureStep(c) \/ Has(c) \/ HasStep(c)
  PROVE  CheckerInv(c)'
<1>0. c \in Calls /\ call[c] \in CallState /\ c \notin Readers
  BY DEF TypeOK, Calls, SetsAssumption
<1> DEFINE Inv(s) ==
      /\ s.at \in HasStates
      /\ s.at \in {"note", "note2"} => s.ok \/ s.asked \notin s.since
      /\ s.at \in {"ask2", "note2"} => s.asked = s.owner
      /\ s.at = "idle" /\ s.said = "no" => s.owner \notin s.since
      /\ s.at # "idle" /\ (local \/ Holders # {}) => s.seen = TRUE
      /\ s.at \in {"note", "note2"} /\ s.ok => s.seen = TRUE
      /\ s.at = "idle" /\ s.said = "yes" => s.seen = TRUE
<1>1. ASSUME NEW s, Become(c, s), Inv(s), UNCHANGED <<local, up, holds>>
      PROVE  CheckerInv(c)'
  <2>1. call'[c] = s
    BY <1>0, <1>1, BecomeSelf
  <2> QED
    BY <1>1, <2>1 DEF CheckerInv, Answered, Step, Holders
<1>2. \A a : /\ Returned(call[c], a).at = "idle" /\ Returned(call[c], a).said = a
             /\ Returned(call[c], a).owner = call[c].owner
             /\ Returned(call[c], a).since = call[c].since
             /\ Returned(call[c], a).seen = call[c].seen
  BY DEF Returned, Blank
<1>3. call[c].seen = TRUE => Inv(Returned(call[c], "yes"))
  BY <1>2 DEF HasStates
<1>4. call[c].owner \notin call[c].since => Inv(Returned(call[c], "no"))
  BY <1>2 DEF HasStates
<1>5. None \notin call[c].since
  BY <1>0 DEF CallState, SetsAssumption
<1>6. CASE Has(c)
  <2>1. \A owner : Inv(Opened("pick", owner, {}))
    BY DEF Opened, Blank, HasStates
  <2> QED
    BY <1>1, <1>6, <2>1 DEF Has, fleetVars
<1>7. CASE Pick(c)
  <2>1. local => call[c].seen = TRUE
    BY <1>7 DEF Pick, Step, CheckerInv
  <2>2. \A w : Inv([call[c] EXCEPT !.at = "ask", !.asked = w])
    <3> TAKE w
    <3> DEFINE s == [call[c] EXCEPT !.at = "ask", !.asked = w]
    <3>1. s.at = "ask" /\ s.seen = call[c].seen
      BY <1>0 DEF CallState
    <3>2. local \/ Holders # {} => call[c].seen = TRUE
      BY <1>7 DEF Pick, Step, CheckerInv
    <3> HIDE DEF s
    <3> QED
      BY <3>1, <3>2 DEF HasStates
  <2>3. \/ local /\ Say(c, "yes")
        \/ call[c].owner = None /\ Say(c, "no")
        \/ \E w : Become(c, [call[c] EXCEPT !.at = "ask", !.asked = w])
    <3>1. None \notin claims
      BY DEF TypeOK, SetsAssumption
    <3> QED
      BY <1>7, <3>1 DEF Pick
  <2>4. UNCHANGED <<local, up, holds>>
    BY <1>7 DEF Pick, fleetVars
  <2> QED
    BY <1>1, <1>3, <1>4, <1>5, <2>1, <2>2, <2>3, <2>4 DEF Say
<1>8. ASSUME NEW at, NEW next, Ask(c, at, next),
             (at = "ask" /\ next = "note") \/ (at = "ask2" /\ next = "note2")
      PROVE  CheckerInv(c)'
  <2>1. PICK ok \in BOOLEAN :
          /\ ok => call[c].asked \in Holders
          /\ Become(c, [call[c] EXCEPT !.at = next, !.ok = ok,
                               !.since = IF ok THEN @ ELSE @ \ {call[c].asked}])
    BY <1>8 DEF Ask
  <2> DEFINE s == [call[c] EXCEPT !.at = next, !.ok = ok,
                               !.since = IF ok THEN @ ELSE @ \ {call[c].asked}]
  <2>2. /\ s.at = next /\ s.ok = ok /\ s.asked = call[c].asked /\ s.owner = call[c].owner
        /\ s.since = IF ok THEN call[c].since ELSE call[c].since \ {call[c].asked}
        /\ s.seen = call[c].seen
    BY <1>0 DEF CallState
  <2>3. /\ local \/ Holders # {} => call[c].seen = TRUE
        /\ at = "ask2" => call[c].asked = call[c].owner
    BY <1>8 DEF Ask, Step, CheckerInv
  <2>4. Become(c, s) /\ UNCHANGED <<local, up, holds>>
    BY <1>8, <2>1 DEF Ask, fleetVars
  <2> HIDE DEF s
  <2>5. Inv(s)
    BY <1>8, <2>1, <2>2, <2>3 DEF HasStates
  <2> QED
    BY <1>1, <2>4, <2>5
<1>9. CASE Note(c)
  <2>1. /\ call[c].ok \/ call[c].asked \notin call[c].since
        /\ call[c].ok => call[c].seen = TRUE
        /\ local \/ Holders # {} => call[c].seen = TRUE
    BY <1>9 DEF Note, Step, CheckerInv
  <2> DEFINE s == [call[c] EXCEPT !.at = "ask2", !.asked = call[c].owner]
  <2>2. s.at = "ask2" /\ s.asked = call[c].owner /\ s.owner = call[c].owner /\ s.seen = call[c].seen
    BY <1>0 DEF CallState
  <2>3. \/ call[c].ok /\ Say(c, "yes")
        \/ ~call[c].ok /\ call[c].owner \in {None, call[c].asked} /\ Say(c, "no")
        \/ Become(c, s)
    BY <1>9 DEF Note
  <2>4. UNCHANGED <<local, up, holds>>
    BY <1>9 DEF Note, fleetVars
  <2> HIDE DEF s
  <2>5. Inv(s)
    BY <2>1, <2>2 DEF HasStates
  <2> QED
    BY <1>1, <1>3, <1>4, <1>5, <2>1, <2>3, <2>4, <2>5 DEF Say
<1>10. CASE NoteOwner(c)
  <2>1. /\ call[c].ok \/ call[c].owner \notin call[c].since
        /\ call[c].ok => call[c].seen = TRUE
    BY <1>10 DEF NoteOwner, Step, CheckerInv
  <2>2. \/ call[c].ok /\ Say(c, "yes")
        \/ ~call[c].ok /\ Say(c, "no")
    BY <1>10 DEF NoteOwner
  <2>3. UNCHANGED <<local, up, holds>>
    BY <1>10 DEF NoteOwner, fleetVars
  <2> QED
    BY <1>1, <1>3, <1>4, <2>1, <2>2, <2>3 DEF Say
<1>11. ~Ensure(c) /\ ~EnsureStep(c)
  BY <1>0 DEF Ensure, EnsureStep, ReadHint, ReadBlooms, Probe, Answers, Seed, FetchFound,
              FetchDenied, FetchFails, Keep, Evict, EndRound, Step, CheckerInv, HasStates
<1> QED
  BY <1>6, <1>7, <1>8, <1>9, <1>10, <1>11 DEF HasStep

\* The fleet takes workers out of since, and a call sees every copy that is made.
LEMMA CheckerFleet ==
  ASSUME TypeOK, NEW c \in Checkers, CheckerInv(c), NEW w \in Workers, FleetStep(w)
  PROVE  CheckerInv(c)'
<1>0. c \in Calls /\ call[c] \in CallState
  BY DEF TypeOK, Calls
<1>1. CASE Join(w) \/ Gossip(w) \/ Done(w) \/ Leave(w)
  <2>1. UNCHANGED <<call, local, up, holds>>
    BY <1>1 DEF Join, Gossip, Done, Leave, fleetVars
  <2> QED
    BY <2>1 DEF CheckerInv, Answered, Step, Holders
<1>2. CASE Produce(w)
  <2>1. call'[c] = [call[c] EXCEPT !.seen = TRUE]
    BY <1>0, <1>2 DEF Produce
  <2>2. /\ call'[c].at = call[c].at /\ call'[c].ok = call[c].ok /\ call'[c].asked = call[c].asked
        /\ call'[c].owner = call[c].owner /\ call'[c].since = call[c].since
        /\ call'[c].said = call[c].said /\ call'[c].seen = TRUE
    BY <1>0, <2>1 DEF CallState
  <2> QED
    BY <2>2 DEF CheckerInv, Answered, Step
<1>3. CASE Forget(w) \/ Die(w)
  <2>1. call'[c] = [call[c] EXCEPT !.since = @ \ {w}, !.known = @ \ {w}]
    BY <1>0, <1>3 DEF Forget, Die, Lost
  <2>2. /\ call'[c].at = call[c].at /\ call'[c].ok = call[c].ok /\ call'[c].asked = call[c].asked
        /\ call'[c].owner = call[c].owner /\ call'[c].since = call[c].since \ {w}
        /\ call'[c].said = call[c].said /\ call'[c].seen = call[c].seen
    BY <1>0, <2>1 DEF CallState
  <2>3. local' = local /\ Holders' \subseteq Holders
    BY <1>3 DEF Forget, Die, Holders
  <2> QED
    BY <2>2, <2>3 DEF CheckerInv, Answered, Step
<1> QED
  BY <1>1, <1>2, <1>3 DEF FleetStep

\* A fetch of another call brings the driver a copy of what a holder has.
LEMMA LocalFromHolder ==
  ASSUME TypeOK, NEW d \in Calls, Ensure(d) \/ EnsureStep(d) \/ Has(d) \/ HasStep(d)
  PROVE  local' = local \/ Holders # {}
<1>1. CASE Ensure(d) \/ Has(d)
  BY <1>1 DEF Ensure, Has
<1>2. CASE EnsureStep(d)
  BY <1>2 DEF EnsureStep, ReadHint, ReadBlooms, Probe, Answers, Seed, FetchFound,
              FetchDenied, FetchFails, Keep, Evict, EndRound
<1>3. CASE HasStep(d)
  BY <1>3 DEF HasStep, Pick, Ask, Note, NoteOwner
<1> QED
  BY <1>1, <1>2, <1>3

LEMMA CheckerStep ==
  ASSUME SetsAssumption, TypeOK, NEW c \in Checkers, CheckerInv(c), [Next]_vars
  PROVE  CheckerInv(c)'
<1>0. c \in Calls
  BY DEF Calls
<1>1. CASE UNCHANGED vars
  BY <1>1 DEF vars, CheckerInv, Answered, Step, Holders
<1>2. CASE Calm
  BY <1>2 DEF Calm, CheckerInv, Answered, Step, Holders
<1>3. ASSUME NEW d \in Calls, d # c, Ensure(d) \/ EnsureStep(d) \/ Has(d) \/ HasStep(d)
      PROVE  CheckerInv(c)'
  <2>1. call'[c] = call[c] /\ UNCHANGED <<fleetVars, claims>>
    BY <1>0, <1>3, CallSteps, BecomeOther
  <2>2. local' = local \/ Holders # {}
    BY <1>3, LocalFromHolder
  <2> QED
    BY <2>1, <2>2 DEF fleetVars, CheckerInv, Answered, Step, Holders
<1> QED
  BY <1>1, <1>2, <1>3, CheckerSelf, CheckerFleet DEF Next

LEMMA CheckersCorrect == Spec => [](\A c \in Checkers : CheckerInv(c))
<1> DEFINE Inv == TypeOK /\ \A c \in Checkers : CheckerInv(c)
<1>1. Init => Inv
  <2> SUFFICES ASSUME Init, NEW c \in Checkers PROVE CheckerInv(c)
    BY TypeInit, SetsAssumption
  <2>1. call[c] = Blank("idle", None, None, {}, {}, FALSE)
    BY DEF Init, Calls
  <2> QED
    BY <2>1, SetsAssumption DEF Blank, CheckerInv, Answered, Step, HasStates, SetsAssumption
<1>2. Inv /\ [Next]_vars => Inv'
  BY SetsAssumption, TypeStep, CheckerStep
<1>3. Inv => \A c \in Checkers : CheckerInv(c)
  OBVIOUS
<1> QED
  BY <1>1, <1>2, <1>3, PTL DEF Spec

\* A presence check says no only when the range owner is not among those that
\* hold the blob all the while and answer: whoever was asked first denied it,
\* and was the owner or was followed by it.
THEOREM OwnerIsAsked == Spec => []OwnerIsConsulted
<1>1. (\A c \in Checkers : CheckerInv(c)) => OwnerIsConsulted
  BY DEF CheckerInv, OwnerIsConsulted
<1> QED
  BY <1>1, CheckersCorrect, PTL

\* A presence check says yes only of a blob that somebody had while it ran,
\* whatever the provider index and the blooms say.
THEOREM YesIsTestified == Spec => []PresenceIsTestified
<1>1. (\A c \in Checkers : CheckerInv(c)) => PresenceIsTestified
  BY DEF CheckerInv, PresenceIsTestified
<1> QED
  BY <1>1, CheckersCorrect, PTL
=============================================================================
