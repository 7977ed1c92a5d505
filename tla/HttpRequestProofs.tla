-------------------------- MODULE HttpRequestProofs -------------------------
(***************************************************************************)
(* Proofs about HttpRequest, for any number of GETs and cancellations.     *)
(***************************************************************************)
EXTENDS HttpRequest, TLAPS

Kinds == {"none", "value", "error", "canceled", "broken"}
\* The operations up to the one that sends the request.
ToWrite == {"resolve", "connect", "handshake", "write"}

\* The chain has nothing left to answer, unless cancel() comes in.
Finished(g) == chain[g] = Ended \/ chain[g].op = "shutdown" \/ chain[g].st = "answered"

\* The callers AnsweredByOwnChain is about.
Calm == ~hurried /\ ~(overlapped /\ cancelled)

\* GETs are made in turn; one not yet made has left no trace.
Begun ==
    \A g \in Gets :
        /\ g <= setter => chain[g] # Unused
        /\ g > setter => chain[g] = Unused /\ result[g] = NoResult
                         /\ written[g] = {} /\ late[g] = 0
                         /\ g \notin afterwards

\* A caller that waits for the end of the chain also waits for the answer.
HurryOverlaps == hurried => overlapped

\* With GETs made one after the other only the last can have a chain.
OneAtATime == ~overlapped => \A g \in Gets : g < setter => chain[g] = Ended

\* Then a chain that is over, or has only the shutdown left, has been answered.
EndedIsAnswered ==
    ~overlapped => \A g \in Gets :
        Finished(g) => result[g] # NoResult

\* For a caller that only waits for the answer, a chain before the last one has
\* nothing left to answer, and neither has the last once it has been answered.
BehindIsFinished == Calm => \A g \in Gets : g < setter => Finished(g)
AnsweredIsFinished == Calm => \A g \in Gets : result[g] # NoResult => Finished(g)

\* Then the fields of a GET are in the request until it is sent.
RequestIsKept ==
    ~overlapped =>
        /\ \A g \in req : g <= setter
        /\ \A g \in Gets : chain[g].op \in ToWrite /\ chain[g].st # "preparing" => g \in req

\* Then what is left in the request of a chain that is over got no value.
ValueIsCleared ==
    ~overlapped /\ ~terminated =>
        \A g \in req : chain[g] = Ended => result[g].kind # "value"

\* The operation started after cancel() is the chain's last.
LateIsLast ==
    \A g \in Gets : late[g] # 0 =>
        late[g] = 1 /\ cancelled /\ chain[g].st \notin {"preparing", "starting"}

\* The chain of a GET made after cancel() does not get beyond resolving.
AfterwardsIsShort ==
    \A g \in afterwards : cancelled /\ (chain[g] = Ended \/ chain[g].op = "resolve")

RequestInv ==
    /\ TypeOK /\ Begun /\ HurryOverlaps /\ OneAtATime /\ EndedIsAnswered
    /\ BehindIsFinished /\ AnsweredIsFinished /\ RequestIsKept /\ ValueIsCleared
    /\ LateIsLast /\ AfterwardsIsShort
    /\ AnsweredByOwnChain /\ OwnRequestIsSent /\ CancelOutlivesItsGet

-----------------------------------------------------------------------------
(* The operators of the model.                                             *)

\* Setting the answer: somebody's future is set if it was not, or the process
\* ends with every future as it was.
LEMMA SetFacts ==
    ASSUME TypeOK, NEW g \in Gets, NEW kind \in Kinds \ {"none"}, Set(g, kind)
    PROVE  /\ result' \in [Gets -> [kind : Kinds, from : 0..MaxGets]]
           /\ terminated' \in BOOLEAN
           /\ \A h \in Gets : h # setter => result'[h] = result[h]
           /\ \A h \in Gets : result[h] # NoResult => result'[h] = result[h]
           /\ setter \in Gets => result'[setter] # NoResult
           /\ setter \in Gets => \/ terminated' /\ result'[setter] = result[setter]
                                 \/ result'[setter] = [kind |-> kind, from |-> g]
<1> DEFINE answer == [kind |-> kind, from |-> g]
<1>1. answer \in [kind : Kinds, from : 0..MaxGets] /\ answer # NoResult
    BY DEF Gets, NoResult, Kinds
<1>2. result \in [Gets -> [kind : Kinds, from : 0..MaxGets]] /\ terminated \in BOOLEAN
    BY DEF TypeOK, Kinds
<1>3. \/ /\ result[setter] = NoResult
         /\ result' = [result EXCEPT ![setter] = answer]
         /\ terminated' = terminated
      \/ /\ result[setter] # NoResult
         /\ result' = result
         /\ terminated' = TRUE
    BY DEF Set
<1> HIDE DEF answer
<1>4. /\ result' \in [Gets -> [kind : Kinds, from : 0..MaxGets]]
      /\ terminated' \in BOOLEAN
      /\ \A h \in Gets : h # setter => result'[h] = result[h]
      /\ \A h \in Gets : result[h] # NoResult => result'[h] = result[h]
      /\ setter \in Gets => result'[setter] # NoResult
      /\ setter \in Gets => \/ terminated' /\ result'[setter] = result[setter]
                            \/ result'[setter] = answer
    BY <1>1, <1>2, <1>3
<1> QED
    BY <1>4 DEF answer

\* A chain that moves keeps the type of chains.
LEMMA MoveFacts ==
    ASSUME TypeOK, NEW g \in Gets, NEW c \in [op : Operations, st : States] \cup {Ended},
           chain' = [chain EXCEPT ![g] = c]
    PROVE  /\ chain' \in [Gets -> [op : Operations, st : States] \cup {Unused, Ended}]
           /\ chain'[g] = c
           /\ c # Unused
           /\ \A h \in Gets : h # g => chain'[h] = chain[h]
<1>1. c # Unused
    BY DEF Unused, Ended, States
<1> DEFINE Chains == [op : Operations, st : States]
<1>2. chain \in [Gets -> Chains \cup {Unused, Ended}] /\ c \in Chains \cup {Ended}
    BY DEF TypeOK
<1> HIDE DEF Chains
<1>3. /\ chain' \in [Gets -> Chains \cup {Unused, Ended}]
      /\ chain'[g] = c
      /\ \A h \in Gets : h # g => chain'[h] = chain[h]
    BY <1>2
<1> QED
    BY <1>1, <1>3 DEF Chains

\* Only a GET that was made has a chain, and the last one if GETs are made one
\* after the other.
LEMMA ActiveFacts ==
    ASSUME RequestInv, NEW g \in Gets, chain[g] # Unused
    PROVE  /\ g <= setter
           /\ setter \in Gets
           /\ ~overlapped /\ chain[g] # Ended => g = setter
<1>1. setter \in 0..MaxGets /\ g \in 1..MaxGets /\ MaxGets \in Nat
    BY BoundsAssumption DEF RequestInv, TypeOK, Gets
<1>2. g <= setter
    BY <1>1 DEF RequestInv, Begun
<1>3. setter \in Gets
    BY <1>1, <1>2 DEF Gets
<1> QED
    BY <1>1, <1>2, <1>3 DEF RequestInv, OneAtATime

-----------------------------------------------------------------------------
(* The invariant.                                                          *)

\* Before the first GET nothing is there to be wrong.
LEMMA RequestInit == Init => RequestInv
<1> SUFFICES ASSUME Init PROVE RequestInv
    OBVIOUS
<1>1. TypeOK
    <2>1. Unused \in [op : Operations, st : States] \cup {Unused, Ended}
        OBVIOUS
    <2>2. NoResult \in [kind : Kinds, from : 0..MaxGets] /\ 0 \in 0..MaxGets /\ 0 \in 0..MaxCancels
        BY BoundsAssumption DEF NoResult, Kinds
    <2> QED
        BY <2>1, <2>2 DEF Init, TypeOK, Kinds
<1>2. Unused # Ended /\ Unused.op = "none" /\ Unused.st = "unused"
    BY DEF Unused, Ended
<1>3. Begun /\ OneAtATime
    BY <1>1 DEF Init, Begun, OneAtATime, Gets
<1>4. EndedIsAnswered /\ RequestIsKept /\ BehindIsFinished /\ AnsweredIsFinished
    BY <1>2 DEF Init, EndedIsAnswered, RequestIsKept, BehindIsFinished, AnsweredIsFinished, Finished,
                ToWrite, Gets
<1>5. /\ ValueIsCleared /\ LateIsLast /\ AnsweredByOwnChain /\ OwnRequestIsSent
      /\ HurryOverlaps /\ AfterwardsIsShort /\ CancelOutlivesItsGet
    BY DEF Init, ValueIsCleared, LateIsLast, AnsweredByOwnChain, OwnRequestIsSent,
           HurryOverlaps, AfterwardsIsShort, CancelOutlivesItsGet
<1> QED
    BY <1>1, <1>3, <1>4, <1>5 DEF RequestInv

\* A GET made when the last chain has ended finds its future answered, and so
\* breaks no promise.
LEMMA GETStep ==
    ASSUME RequestInv, NEW g \in Gets, GET(g)
    PROVE  RequestInv'
<1> USE DEF RequestInv
<1> DEFINE first == [op |-> "resolve", st |-> "preparing"]
<1>1. /\ g = setter + 1 /\ setter' = g
      /\ result' = [h \in Gets |-> IF h = setter /\ Unanswered
                                   THEN [kind |-> "broken", from |-> g] ELSE result[h]]
      /\ afterwards' = IF cancelled THEN afterwards \cup {g} ELSE afterwards
      /\ UNCHANGED <<req, armed, slot, cancelled, cancels, emitting, terminated, written, late>>
    BY DEF GET, cancelVars
<1>2. /\ chain' \in [Gets -> [op : Operations, st : States] \cup {Unused, Ended}]
      /\ chain'[g] = first /\ first # Unused
      /\ \A h \in Gets : h # g => chain'[h] = chain[h]
    <2>1. first \in [op : Operations, st : States] \cup {Ended}
        BY DEF Operations, States
    <2>2. chain' = [chain EXCEPT ![g] = first]
        BY DEF GET, Goto
    <2> QED
        BY <2>1, <2>2, MoveFacts
<1>3. /\ setter \in 0..MaxGets /\ setter \in Nat /\ g \in Nat
      /\ \A h \in Gets : h \in Nat
    BY BoundsAssumption DEF TypeOK, Gets
<1>4. first # Ended /\ first.op = "resolve" /\ first.st = "preparing"
    BY DEF Ended
<1>5. chain[g] = Unused /\ late[g] = 0 /\ written[g] = {} /\ result[g] = NoResult /\ g \notin afterwards
    BY <1>1, <1>3 DEF Begun
<1>6. /\ overlapped' \in BOOLEAN /\ hurried' \in BOOLEAN
      /\ ~overlapped' => ~overlapped /\ \A h \in Gets : h <= setter => chain[h] = Ended
      /\ ~hurried' <=> ~hurried /\ ~Unanswered
      /\ overlapped => overlapped'
    BY Zenon DEF GET, TypeOK
<1>7. ~hurried' => result' = result
    BY <1>1, <1>6 DEF TypeOK
<1>8. ~overlapped' => ~hurried'
    <2>1. ~overlapped' => ~Unanswered
        <3>1. setter # 0 => setter \in Gets
            BY <1>3 DEF Gets
        <3> QED
            BY <1>3, <1>6, <3>1 DEF EndedIsAnswered, Finished, Unanswered, pending
    <2> QED
        BY <1>6, <2>1 DEF HurryOverlaps
<1>9. Calm' => Calm
    BY <1>1, <1>6 DEF Calm
<1> HIDE DEF first
<1>10. TypeOK'
    <2>1. result' \in [Gets -> [kind : Kinds, from : 0..MaxGets]]
        <3>1. [kind |-> "broken", from |-> g] \in [kind : Kinds, from : 0..MaxGets]
            BY DEF Gets, Kinds
        <3>2. \A h \in Gets : result[h] \in [kind : Kinds, from : 0..MaxGets]
            BY DEF TypeOK, Kinds
        <3> QED
            BY <1>1, <3>1, <3>2
    <2>2. setter' \in 0..MaxGets /\ afterwards' \subseteq Gets
        BY <1>1 DEF TypeOK, Gets
    <2> QED
        BY <1>1, <1>2, <1>6, <2>1, <2>2 DEF TypeOK, Kinds
<1>11. Begun'
    <2>1. \A h \in Gets : h > setter' => h # setter /\ h # g /\ h > setter
        BY <1>1, <1>3
    <2>2. \A h \in Gets : h <= setter' => h = g \/ h <= setter
        BY <1>1, <1>3
    <2>3. \A h \in Gets : h \in afterwards' => h = g \/ h \in afterwards
        BY <1>1
    <2> QED
        BY <1>1, <1>2, <2>1, <2>2, <2>3 DEF Begun
<1>12. OneAtATime' /\ HurryOverlaps'
    BY <1>1, <1>2, <1>3, <1>6, <1>8 DEF OneAtATime, HurryOverlaps
<1>13. EndedIsAnswered'
    BY <1>2, <1>4, <1>6, <1>7, <1>8 DEF EndedIsAnswered, Finished
<1>14. BehindIsFinished'
    <2> SUFFICES ASSUME Calm', NEW h \in Gets, h < g PROVE Finished(h)'
        BY <1>1 DEF BehindIsFinished
    <2>1. h < setter \/ h = setter
        BY <1>1, <1>3
    <2>2. Finished(h)
        <3>1. h = setter => result[h] # NoResult
            BY <1>3, <1>6 DEF Calm, Unanswered, pending, Gets
        <3> QED
            BY <1>9, <2>1, <3>1 DEF BehindIsFinished, AnsweredIsFinished
    <2>3. h # g
        BY <1>3
    <2> QED
        BY <1>2, <2>2, <2>3 DEF Finished
<1>15. AnsweredIsFinished'
    <2> SUFFICES ASSUME Calm', NEW h \in Gets, result'[h] # NoResult PROVE Finished(h)'
        BY DEF AnsweredIsFinished
    <2>1. result[h] # NoResult /\ h # g
        BY <1>5, <1>7 DEF Calm
    <2> QED
        BY <1>2, <1>9, <2>1 DEF AnsweredIsFinished, Finished
<1>16. RequestIsKept'
    <2>1. ~overlapped' => \A h \in req' : h <= setter'
        BY <1>1, <1>3, <1>6 DEF RequestIsKept, TypeOK
    <2>2. ~overlapped' => \A h \in Gets : chain'[h].op \in ToWrite /\ chain'[h].st # "preparing" => h \in req'
        BY <1>1, <1>2, <1>4, <1>6 DEF RequestIsKept
    <2> QED
        BY <2>1, <2>2 DEF RequestIsKept
<1>17. ValueIsCleared'
    BY <1>1, <1>2, <1>4, <1>6, <1>7, <1>8 DEF ValueIsCleared, TypeOK
<1>18. LateIsLast' /\ AfterwardsIsShort'
    BY <1>1, <1>2, <1>4, <1>5 DEF LateIsLast, AfterwardsIsShort, TypeOK
<1>19. AnsweredByOwnChain'
    BY <1>7, <1>9 DEF AnsweredByOwnChain, Calm
<1>20. OwnRequestIsSent'
    BY <1>1, <1>6, <1>7, <1>8 DEF OwnRequestIsSent
<1>21. CancelOutlivesItsGet'
    <2> SUFFICES ASSUME NEW h \in afterwards'
                 PROVE  written[h] = {} /\ (result'[h].from = h => result'[h].kind \in {"error", "canceled"})
        BY <1>1 DEF CancelOutlivesItsGet
    <2>1. CASE h = g
        <3>1. result'[g] = NoResult /\ g # 0
            BY <1>1, <1>3, <1>5
        <3> QED
            BY <1>5, <2>1, <3>1 DEF NoResult
    <2>2. CASE h # g
        <3>1. h \in afterwards /\ h \in Gets
            BY <1>1, <2>2 DEF TypeOK
        <3>2. result'[h] = result[h] \/ result'[h].from = g
            BY <1>1, <3>1
        <3> QED
            BY <2>2, <3>1, <3>2 DEF CancelOutlivesItsGet
    <2> QED
        BY <2>1, <2>2
<1> QED
    BY <1>10, <1>11, <1>12, <1>13, <1>14, <1>15, <1>16, <1>17, <1>18, <1>19, <1>20, <1>21

\* Setting the flag disturbs nothing but the flag.
LEMMA cancelFlagStep ==
    ASSUME RequestInv, cancelFlag
    PROVE  RequestInv'
<1> USE DEF RequestInv
<1>1. /\ UNCHANGED <<setter, result, chain, req, armed, slot, terminated, written, late, callVars>>
      /\ cancelled' = TRUE /\ emitting' = TRUE /\ cancels < MaxCancels /\ cancels' = cancels + 1
    BY DEF cancelFlag
<1>2. cancels' \in 0..MaxCancels
    BY <1>1, BoundsAssumption DEF TypeOK
<1>3. TypeOK'
    BY <1>1, <1>2 DEF TypeOK, callVars
<1>4. BehindIsFinished' /\ AnsweredIsFinished' /\ AnsweredByOwnChain'
    BY <1>1 DEF BehindIsFinished, AnsweredIsFinished, AnsweredByOwnChain, Calm, Finished, callVars
<1>5. Begun' /\ HurryOverlaps' /\ OneAtATime' /\ EndedIsAnswered' /\ RequestIsKept' /\ ValueIsCleared'
    BY <1>1 DEF Begun, HurryOverlaps, OneAtATime, EndedIsAnswered, RequestIsKept, ValueIsCleared,
                Finished, callVars
<1>6. LateIsLast' /\ AfterwardsIsShort' /\ OwnRequestIsSent' /\ CancelOutlivesItsGet'
    BY <1>1 DEF LateIsLast, AfterwardsIsShort, OwnRequestIsSent, CancelOutlivesItsGet, callVars
<1> QED
    BY <1>3, <1>4, <1>5, <1>6

\* Emitting tells an operation to stop; the chain goes on from its handler.
LEMMA cancelEmitStep ==
    ASSUME RequestInv, cancelEmit
    PROVE  RequestInv'
<1> USE DEF RequestInv
<1>1. /\ UNCHANGED <<setter, result, req, armed, slot, cancelled, cancels, terminated, written, late,
                     callVars>>
      /\ emitting' = FALSE
      /\ chain' = [g \in Gets |-> IF g = slot /\ chain[g].st = "waiting"
                                  THEN [chain[g] EXCEPT !.st = "aborted"] ELSE chain[g]]
    BY DEF cancelEmit
<1>2. ASSUME NEW g \in Gets
      PROVE  /\ chain'[g] \in [op : Operations, st : States] \cup {Unused, Ended}
             /\ chain'[g] = Unused <=> chain[g] = Unused
             /\ chain'[g] = Ended <=> chain[g] = Ended
             /\ chain'[g].op = chain[g].op
             /\ chain'[g].st = chain[g].st \/ chain'[g].st = "aborted"
    <2>1. chain[g] \in [op : Operations, st : States] \cup {Unused, Ended}
        BY DEF TypeOK
    <2>2. CASE chain[g].st = "waiting"
        <3>1. chain[g] \in [op : Operations, st : States]
            BY <2>1, <2>2 DEF Unused, Ended
        <3>2. chain'[g] = [op |-> chain[g].op, st |-> "aborted"] \/ chain'[g] = chain[g]
            BY <1>1, <3>1
        <3> QED
            BY <3>1, <3>2 DEF Unused, Ended, States
    <2>3. CASE chain[g].st # "waiting"
        BY <1>1, <2>1, <2>3
    <2> QED
        BY <2>2, <2>3
<1>3. TypeOK'
    <2>1. chain' \in [Gets -> [op : Operations, st : States] \cup {Unused, Ended}]
        BY <1>1, <1>2
    <2> QED
        BY <1>1, <2>1 DEF TypeOK, callVars
<1>4. Begun' /\ OneAtATime' /\ HurryOverlaps'
    BY <1>1, <1>2 DEF Begun, OneAtATime, HurryOverlaps, callVars
<1>5. \A g \in Gets : Finished(g)' <=> Finished(g)
    <2> SUFFICES ASSUME NEW g \in Gets PROVE Finished(g)' <=> Finished(g)
        OBVIOUS
    <2>1. chain[g].st = "answered" <=> chain'[g].st = "answered"
        BY <1>1, <1>2 DEF TypeOK
    <2> QED
        BY <1>2, <2>1 DEF Finished
<1>6. EndedIsAnswered' /\ BehindIsFinished' /\ AnsweredIsFinished'
    BY <1>1, <1>5 DEF EndedIsAnswered, BehindIsFinished, AnsweredIsFinished, Calm, callVars
<1>7. RequestIsKept'
    <2>1. \A g \in Gets : chain'[g].st # "preparing" => chain[g].st # "preparing"
        BY <1>1, <1>2 DEF TypeOK
    <2> QED
        BY <1>1, <1>2, <2>1 DEF RequestIsKept, callVars
<1>8. ValueIsCleared' /\ LateIsLast' /\ AfterwardsIsShort'
    BY <1>1, <1>2 DEF ValueIsCleared, LateIsLast, AfterwardsIsShort, TypeOK, callVars
<1>9. AnsweredByOwnChain' /\ OwnRequestIsSent' /\ CancelOutlivesItsGet'
    BY <1>1 DEF AnsweredByOwnChain, OwnRequestIsSent, CancelOutlivesItsGet, callVars
<1> QED
    BY <1>3, <1>4, <1>6, <1>7, <1>8, <1>9

\* The fields of the GET join the request.
LEMMA setFieldsStep ==
    ASSUME RequestInv, NEW g \in Gets, setFields(g)
    PROVE  RequestInv'
<1> USE DEF RequestInv
<1> DEFINE c == [op |-> "resolve", st |-> "preparing"]
           d == [op |-> "resolve", st |-> "starting"]
<1>1. /\ chain[g] = c /\ req' = req \cup {g}
      /\ UNCHANGED <<setter, result, armed, slot, cancelled, cancels, emitting, terminated, written, late,
                     afterwards, overlapped, hurried>>
    BY DEF setFields, At, cancelVars, callVars
<1>2. /\ chain' \in [Gets -> [op : Operations, st : States] \cup {Unused, Ended}]
      /\ chain'[g] = d /\ d # Unused
      /\ \A h \in Gets : h # g => chain'[h] = chain[h]
    <2>1. d \in [op : Operations, st : States] \cup {Ended}
        BY DEF Operations, States
    <2>2. chain' = [chain EXCEPT ![g] = d]
        BY DEF setFields, Goto
    <2> QED
        BY <2>1, <2>2, MoveFacts
<1>3. /\ c # Unused /\ c # Ended /\ c.op = "resolve" /\ c.st = "preparing"
      /\ d # Ended /\ d.op = "resolve" /\ d.st = "starting"
    BY DEF Unused, Ended
<1> HIDE DEF c, d
<1>4. g <= setter /\ (~overlapped => g = setter)
    BY <1>1, <1>3, ActiveFacts
<1>5. TypeOK'
    BY <1>1, <1>2 DEF TypeOK
<1>6. /\ setter \in Nat /\ \A h \in Gets : h \in Nat
    BY DEF TypeOK, Gets
<1>7. Begun'
    <2>1. \A h \in Gets : h > setter => h # g
        BY <1>4, <1>6
    <2> QED
        BY <1>1, <1>2, <2>1 DEF Begun
<1>8. OneAtATime' /\ HurryOverlaps'
    BY <1>1, <1>2, <1>4, <1>6 DEF OneAtATime, HurryOverlaps
<1>9. EndedIsAnswered' /\ BehindIsFinished' /\ AnsweredIsFinished'
    <2>1. \A h \in Gets : Finished(h)' <=> Finished(h)
        BY <1>1, <1>2, <1>3 DEF Finished
    <2> QED
        BY <1>1, <2>1 DEF EndedIsAnswered, BehindIsFinished, AnsweredIsFinished, Calm
<1>10. RequestIsKept'
    BY <1>1, <1>2, <1>4 DEF RequestIsKept
<1>11. ValueIsCleared'
    BY <1>1, <1>2, <1>3 DEF ValueIsCleared, TypeOK
<1>12. LateIsLast' /\ AfterwardsIsShort'
    BY <1>1, <1>2, <1>3 DEF LateIsLast, AfterwardsIsShort, TypeOK
<1>13. AnsweredByOwnChain' /\ OwnRequestIsSent' /\ CancelOutlivesItsGet'
    BY <1>1 DEF AnsweredByOwnChain, OwnRequestIsSent, CancelOutlivesItsGet
<1> QED
    BY <1>5, <1>7, <1>8, <1>9, <1>10, <1>11, <1>12, <1>13

\* Initiating an operation: the request goes out with the fields it has.
LEMMA StartStep ==
    ASSUME RequestInv, NEW g \in Gets, NEW op \in Operations, Start(g, op),
           slot' \in 0..MaxGets, armed' \in BOOLEAN,
           written' = written \/ (op = "write" /\ written' = [written EXCEPT ![g] = req])
    PROVE  RequestInv'
<1> USE DEF RequestInv
<1> DEFINE c == [op |-> op, st |-> "starting"]
           d == [op |-> op, st |-> "waiting"]
<1>1. /\ chain[g] = c
      /\ late' = IF cancelled THEN [late EXCEPT ![g] = @ + 1] ELSE late
      /\ UNCHANGED <<setter, result, req, cancelled, cancels, emitting, terminated,
                     afterwards, overlapped, hurried>>
    BY DEF Start, At, cancelVars, callVars
<1>2. /\ chain' \in [Gets -> [op : Operations, st : States] \cup {Unused, Ended}]
      /\ chain'[g] = d /\ d # Unused
      /\ \A h \in Gets : h # g => chain'[h] = chain[h]
    <2>1. d \in [op : Operations, st : States] \cup {Ended}
        BY DEF States
    <2>2. chain' = [chain EXCEPT ![g] = d]
        BY DEF Start, Goto
    <2> QED
        BY <2>1, <2>2, MoveFacts
<1>3. /\ c # Unused /\ c # Ended /\ c.op = op /\ c.st = "starting"
      /\ d # Ended /\ d.op = op /\ d.st = "waiting"
    BY DEF Unused, Ended
<1> HIDE DEF c, d
<1>4. /\ g <= setter
      /\ ~overlapped => g = setter
    BY <1>1, <1>3, ActiveFacts
<1>5. TypeOK'
    <2>1. written' \in [Gets -> SUBSET Gets] /\ late' \in [Gets -> Nat]
        BY <1>1 DEF TypeOK
    <2> QED
        BY <1>1, <1>2, <2>1 DEF TypeOK
<1>6. /\ setter \in Nat /\ \A h \in Gets : h \in Nat
    BY DEF TypeOK, Gets
<1>7. Begun'
    <2>1. \A h \in Gets : h > setter => h # g
        BY <1>4, <1>6
    <2> QED
        BY <1>1, <1>2, <2>1 DEF Begun, TypeOK
<1>8. OneAtATime' /\ HurryOverlaps'
    BY <1>1, <1>2, <1>4, <1>6 DEF OneAtATime, HurryOverlaps
<1>9. EndedIsAnswered' /\ BehindIsFinished' /\ AnsweredIsFinished'
    <2>1. \A h \in Gets : Finished(h)' <=> Finished(h)
        BY <1>1, <1>2, <1>3 DEF Finished
    <2> QED
        BY <1>1, <2>1 DEF EndedIsAnswered, BehindIsFinished, AnsweredIsFinished, Calm
<1>10. RequestIsKept'
    BY <1>1, <1>2, <1>3 DEF RequestIsKept
<1>11. ValueIsCleared'
    BY <1>1, <1>2, <1>3 DEF ValueIsCleared, TypeOK
<1>12. LateIsLast' /\ AfterwardsIsShort'
    BY <1>1, <1>2, <1>3 DEF LateIsLast, AfterwardsIsShort, TypeOK
<1>13. AnsweredByOwnChain' /\ CancelOutlivesItsGet'
    <2>1. \A h \in afterwards : written'[h] = written[h]
        BY <1>1, <1>3 DEF AfterwardsIsShort, TypeOK
    <2> QED
        BY <1>1, <2>1 DEF AnsweredByOwnChain, CancelOutlivesItsGet
<1>14. OwnRequestIsSent'
    <2> SUFFICES ASSUME ~overlapped, NEW k \in Gets, written'[k] # {}
                 PROVE  k \in written'[k] /\ \A h \in written'[k] \ {k} : h < k /\ result[h].kind # "value"
        BY <1>1 DEF OwnRequestIsSent
    <2>1. CASE written'[k] = written[k]
        BY <2>1 DEF OwnRequestIsSent
    <2>2. CASE k = g /\ op = "write" /\ written'[k] = req
        <3>1. g \in req /\ \A h \in req : h <= setter
            <4>1. chain[g].op \in ToWrite /\ chain[g].st # "preparing"
                BY <1>1, <1>3, <2>2 DEF ToWrite
            <4> QED
                BY <4>1 DEF RequestIsKept
        <3>2. \A h \in req \ {g} : h \in Gets /\ h < g
            <4>1. \A h \in req : h \in Gets
                BY DEF TypeOK
            <4> QED
                BY <1>4, <1>6, <3>1, <4>1
        <3>3. \A h \in req \ {g} : chain[h] = Ended
            BY <1>4, <3>2 DEF OneAtATime
        <3>4. \A h \in req \ {g} : result[h].kind # "value"
            BY <3>3 DEF ValueIsCleared, Start
        <3> QED
            BY <2>2, <3>1, <3>2, <3>4
    <2> QED
        BY <2>1, <2>2 DEF TypeOK
<1> QED
    BY <1>5, <1>7, <1>8, <1>9, <1>10, <1>11, <1>12, <1>13, <1>14

\* A handler that answers: with GETs one after the other the future it finds
\* in the setter is its own.
LEMMA AnswerStep ==
    ASSUME RequestInv, NEW g \in Gets, NEW kind \in Kinds \ {"none"}, Set(g, kind),
           NEW c \in {Ended, [op |-> "read", st |-> "answered"]},
           c # Ended => chain[g].op = "read",
           chain[g] # Unused, chain[g] # Ended, chain' = [chain EXCEPT ![g] = c],
           kind = "value" => c # Ended /\ chain[g].op = "read",
           kind \in {"value", "error", "canceled"}, Finished(g) => cancelled,
           ~terminated, slot' \in 0..MaxGets,
           UNCHANGED <<setter, req, armed, cancelVars, written, late, callVars>>
    PROVE  RequestInv'
<1> USE DEF RequestInv
<1>1. UNCHANGED <<setter, req, armed, cancelled, cancels, emitting, written, late,
                  afterwards, overlapped, hurried>>
    BY DEF cancelVars, callVars
<1>2. /\ chain' \in [Gets -> [op : Operations, st : States] \cup {Unused, Ended}]
      /\ chain'[g] = c /\ c # Unused
      /\ \A h \in Gets : h # g => chain'[h] = chain[h]
    <2>1. c \in [op : Operations, st : States] \cup {Ended}
        BY DEF Operations, States
    <2> QED
        BY <2>1, MoveFacts
<1>3. /\ c.st \notin {"preparing", "starting"} /\ c.op \notin ToWrite
      /\ c = Ended \/ c.st = "answered"
    BY DEF Ended, ToWrite
<1>4. setter \in Gets /\ g <= setter /\ (~overlapped => g = setter)
    BY ActiveFacts
<1>16. Calm => g = setter
    <2>1. Calm /\ g # setter => Finished(g) /\ overlapped
        BY <1>4 DEF BehindIsFinished, TypeOK, Gets
    <2> QED
        BY <2>1 DEF Calm
<1>5. /\ result' \in [Gets -> [kind : Kinds, from : 0..MaxGets]]
      /\ terminated' \in BOOLEAN
      /\ \A h \in Gets : h # setter => result'[h] = result[h]
      /\ \A h \in Gets : result[h] # NoResult => result'[h] = result[h]
      /\ result'[setter] # NoResult
      /\ \/ terminated' /\ result'[setter] = result[setter]
         \/ result'[setter] = [kind |-> kind, from |-> g]
    BY <1>4, SetFacts
<1>6. /\ setter \in Nat /\ \A h \in Gets : h \in Nat
    BY DEF TypeOK, Gets
<1>7. TypeOK'
    BY <1>1, <1>2, <1>5 DEF TypeOK, Kinds
<1>8. Begun'
    <2>1. \A h \in Gets : h > setter => h # g /\ h # setter
        BY <1>4, <1>6
    <2> QED
        BY <1>1, <1>2, <1>5, <2>1 DEF Begun
<1>9. OneAtATime' /\ HurryOverlaps'
    BY <1>1, <1>2, <1>4, <1>6 DEF OneAtATime, HurryOverlaps
<1>10. EndedIsAnswered' /\ BehindIsFinished' /\ AnsweredIsFinished'
    <2>1. \A h \in Gets : h # g => (Finished(h)' <=> Finished(h))
        BY <1>2 DEF Finished
    <2>2. Finished(g)'
        BY <1>2, <1>3 DEF Finished
    <2>3. EndedIsAnswered'
        BY <1>1, <1>4, <1>5, <2>1 DEF EndedIsAnswered
    <2>4. BehindIsFinished' /\ AnsweredIsFinished'
        BY <1>1, <1>16, <1>5, <2>1, <2>2 DEF BehindIsFinished, AnsweredIsFinished, Calm
    <2> QED
        BY <2>3, <2>4
<1>11. RequestIsKept'
    BY <1>1, <1>2, <1>3 DEF RequestIsKept
<1>12. ValueIsCleared'
    <2> SUFFICES ASSUME ~overlapped, ~terminated', NEW h \in req, chain'[h] = Ended
                 PROVE  result'[h].kind # "value"
        BY <1>1 DEF ValueIsCleared
    <2>1. h \in Gets
        BY DEF TypeOK
    <2>2. CASE h = g
        BY <1>2, <1>4, <1>5, <2>2
    <2>3. CASE h # g
        BY <1>2, <1>4, <1>5, <2>1, <2>3 DEF ValueIsCleared
    <2> QED
        BY <2>2, <2>3
<1>13. LateIsLast' /\ AfterwardsIsShort'
    <2>1. g \in afterwards => chain[g].op = "resolve"
        BY DEF AfterwardsIsShort
    <2>2. g \in afterwards => c = Ended
        BY <2>1
    <2> QED
        BY <1>1, <1>2, <1>3, <2>2 DEF LateIsLast, AfterwardsIsShort, TypeOK
<1>14. AnsweredByOwnChain' /\ CancelOutlivesItsGet'
    <2>1. AnsweredByOwnChain'
        BY <1>1, <1>16, <1>5 DEF AnsweredByOwnChain, Calm
    <2>2. CancelOutlivesItsGet'
        <3> SUFFICES ASSUME NEW h \in afterwards
            PROVE  result'[h].from = h => result'[h].kind \in {"error", "canceled"}
            BY <1>1 DEF CancelOutlivesItsGet
        <3>1. CASE result'[h] = result[h]
            BY <3>1 DEF CancelOutlivesItsGet
        <3>2. CASE result'[h] = [kind |-> kind, from |-> g]
            BY <3>2 DEF AfterwardsIsShort
        <3> QED
            BY <1>5, <3>1, <3>2 DEF TypeOK
    <2> QED
        BY <2>1, <2>2
<1>15. OwnRequestIsSent'
    <2> SUFFICES ASSUME ~overlapped, NEW k \in Gets, written[k] # {}, NEW h \in written[k] \ {k}
                 PROVE  k \in written[k] /\ h < k /\ result'[h].kind # "value"
        BY <1>1 DEF OwnRequestIsSent, TypeOK
    <2>1. k \in written[k] /\ h \in Gets /\ h < k /\ result[h].kind # "value"
        BY DEF OwnRequestIsSent, TypeOK
    <2>2. k <= setter
        BY <1>6 DEF Begun
    <2>3. h # setter
        BY <1>6, <2>1, <2>2
    <2> QED
        BY <1>5, <2>1, <2>3
<1> QED
    BY <1>7, <1>8, <1>9, <1>10, <1>11, <1>12, <1>13, <1>14, <1>15

\* A handler that finds the flag clear goes on to the next operation.
LEMMA AdvanceStep ==
    ASSUME RequestInv, NEW g \in Gets, NEW op \in Operations, ~cancelled,
           chain[g] # Unused, chain[g] # Ended, Goto(g, op, "starting"),
           IF op = "shutdown" THEN chain[g].st = "answered"
           ELSE chain[g].op \in ToWrite /\ chain[g].st \in {"waiting", "aborted"},
           slot' \in 0..MaxGets,
           UNCHANGED <<setter, result, req, armed, cancelVars, terminated, written, late, callVars>>
    PROVE  RequestInv'
<1> USE DEF RequestInv
<1> DEFINE c == [op |-> op, st |-> "starting"]
<1>1. UNCHANGED <<setter, result, req, armed, cancelled, cancels, emitting, terminated, written, late,
                  afterwards, overlapped, hurried>>
    BY DEF cancelVars, callVars
<1>2. /\ chain' \in [Gets -> [op : Operations, st : States] \cup {Unused, Ended}]
      /\ chain'[g] = c /\ c # Unused
      /\ \A h \in Gets : h # g => chain'[h] = chain[h]
    <2>1. c \in [op : Operations, st : States] \cup {Ended}
        BY DEF States
    <2>2. chain' = [chain EXCEPT ![g] = c]
        BY DEF Goto
    <2> QED
        BY <2>1, <2>2, MoveFacts
<1>3. c # Ended /\ c.op = op /\ c.st = "starting"
    BY DEF Ended
<1> HIDE DEF c
<1>4. g <= setter /\ (~overlapped => g = setter)
    BY ActiveFacts
<1>5. /\ setter \in Nat /\ \A h \in Gets : h \in Nat
    BY DEF TypeOK, Gets
<1>6. TypeOK'
    BY <1>1, <1>2 DEF TypeOK
<1>7. Begun'
    <2>1. \A h \in Gets : h > setter => h # g
        BY <1>4, <1>5
    <2> QED
        BY <1>1, <1>2, <2>1 DEF Begun
<1>8. OneAtATime' /\ HurryOverlaps'
    BY <1>1, <1>2, <1>4, <1>5 DEF OneAtATime, HurryOverlaps
<1>9. EndedIsAnswered' /\ BehindIsFinished' /\ AnsweredIsFinished'
    <2>1. Finished(g)' <=> Finished(g)
        BY <1>2, <1>3 DEF Finished, ToWrite
    <2>2. \A h \in Gets : Finished(h)' <=> Finished(h)
        BY <1>2, <2>1 DEF Finished
    <2> QED
        BY <1>1, <2>2 DEF EndedIsAnswered, BehindIsFinished, AnsweredIsFinished, Calm
<1>10. RequestIsKept'
    BY <1>1, <1>2, <1>3 DEF RequestIsKept, ToWrite
<1>11. ValueIsCleared'
    BY <1>1, <1>2, <1>3 DEF ValueIsCleared, TypeOK
<1>12. LateIsLast' /\ AfterwardsIsShort'
    BY <1>1, <1>2 DEF LateIsLast, AfterwardsIsShort, TypeOK
<1>13. AnsweredByOwnChain' /\ OwnRequestIsSent' /\ CancelOutlivesItsGet'
    BY <1>1 DEF AnsweredByOwnChain, OwnRequestIsSent, CancelOutlivesItsGet
<1> QED
    BY <1>6, <1>7, <1>8, <1>9, <1>10, <1>11, <1>12, <1>13

\* An outstanding operation is one of a chain that goes on.
LEMMA OutstandingFacts ==
    ASSUME TypeOK, NEW g \in Gets, NEW op \in Operations, Completes(g, op)
    PROVE  /\ chain[g] # Unused /\ chain[g] # Ended /\ chain[g].op = op
           /\ chain[g].st \in {"waiting", "aborted"}
           /\ ~terminated /\ slot' \in 0..MaxGets
           /\ UNCHANGED <<setter, armed, cancelVars, written, late, callVars>>
<1>1. chain[g] \in {[op |-> op, st |-> "waiting"], [op |-> op, st |-> "aborted"]}
    BY DEF Completes, Outstanding, At
<1>2. /\ chain[g] # Unused /\ chain[g] # Ended /\ chain[g].op = op
      /\ chain[g].st \in {"waiting", "aborted"}
    BY <1>1 DEF Unused, Ended
<1>3. slot' \in 0..MaxGets
    BY BoundsAssumption DEF Completes, TypeOK
<1> QED
    BY <1>2, <1>3 DEF Completes

\* The handlers of resolve, connect, handshake and write.
LEMMA OnDoneStep ==
    ASSUME RequestInv, NEW g \in Gets, NEW op \in ToWrite, NEW error \in BOOLEAN,
           NEW next \in Operations \ {"shutdown"}, OnDone(g, op, next, error)
    PROVE  RequestInv'
<1>1. TypeOK /\ op \in Operations /\ op # "shutdown"
    BY DEF RequestInv, Operations, ToWrite
<1>2. /\ chain[g] # Unused /\ chain[g] # Ended /\ chain[g].op = op
      /\ chain[g].st \in {"waiting", "aborted"} /\ ~Finished(g)
      /\ ~terminated /\ slot' \in 0..MaxGets
      /\ UNCHANGED <<setter, req, armed, cancelVars, written, late, callVars>>
    BY <1>1, OutstandingFacts DEF OnDone, Finished
<1>3. CASE error
    BY <1>2, <1>3, AnswerStep DEF OnDone, End, Kinds
<1>4. CASE ~error /\ cancelled
    BY <1>2, <1>4, AnswerStep DEF OnDone, End, Kinds
<1>5. CASE ~error /\ ~cancelled
    <2>1. Goto(g, next, "starting") /\ UNCHANGED <<result, terminated>>
        BY <1>5 DEF OnDone
    <2> QED
        BY <1>1, <1>2, <1>5, <2>1, AdvanceStep
<1> QED
    BY <1>3, <1>4, <1>5

\* onReadDone() sets the value before it looks at the flag ...
LEMMA onReadDoneStep ==
    ASSUME RequestInv, NEW g \in Gets, NEW error \in BOOLEAN, onReadDone(g, error)
    PROVE  RequestInv'
<1>1. TypeOK /\ "read" \in Operations /\ Completes(g, "read")
    BY DEF RequestInv, Operations, onReadDone
<1>2. /\ chain[g] # Unused /\ chain[g] # Ended /\ chain[g].op = "read" /\ ~Finished(g)
      /\ ~terminated /\ slot' \in 0..MaxGets
      /\ UNCHANGED <<setter, req, armed, cancelVars, written, late, callVars>>
    BY <1>1, OutstandingFacts DEF onReadDone, Finished
<1>3. CASE error
    BY <1>2, <1>3, AnswerStep DEF onReadDone, End, Kinds
<1>4. CASE ~error
    <2>1. [op |-> "read", st |-> "answered"] # Ended
        BY DEF Ended
    <2> QED
        BY <1>2, <1>4, <2>1, AnswerStep DEF onReadDone, Goto, Kinds
<1> QED
    BY <1>3, <1>4

\* ... so what it does after that finds the future answered.
LEMMA onReadDoneAfterStep ==
    ASSUME RequestInv, NEW g \in Gets, onReadDoneAfter(g)
    PROVE  RequestInv'
<1>1. chain[g] = [op |-> "read", st |-> "answered"]
    BY DEF onReadDoneAfter, At
<1>2. chain[g] # Unused /\ chain[g] # Ended /\ chain[g].st = "answered"
    BY <1>1 DEF Unused, Ended
<1>3. /\ ~terminated /\ slot' \in 0..MaxGets
      /\ UNCHANGED <<setter, req, armed, cancelVars, written, late, callVars>>
    BY DEF onReadDoneAfter, RequestInv, TypeOK
<1>4. CASE cancelled
    BY <1>2, <1>3, <1>4, AnswerStep DEF onReadDoneAfter, End, Kinds
<1>5. CASE ~cancelled
    <2>1. Goto(g, "shutdown", "starting") /\ UNCHANGED <<result, terminated>>
        BY <1>5 DEF onReadDoneAfter
    <2>2. "shutdown" \in Operations
        BY DEF Operations
    <2> QED
        BY <1>2, <1>3, <1>5, <2>1, <2>2, AdvanceStep
<1> QED
    BY <1>4, <1>5

\* The end of a chain that got a response clears the request: with GETs one
\* after the other nobody else's fields are in it that are still to be sent.
LEMMA onShutdownDoneStep ==
    ASSUME RequestInv, NEW g \in Gets, onShutdownDone(g)
    PROVE  RequestInv'
<1> USE DEF RequestInv
<1>1. "shutdown" \in Operations /\ Completes(g, "shutdown")
    BY DEF Operations, onShutdownDone
<1>2. /\ chain[g] # Unused /\ chain[g] # Ended /\ chain[g].op = "shutdown"
      /\ slot' \in 0..MaxGets
      /\ UNCHANGED <<setter, armed, cancelVars, written, late, callVars>>
    BY <1>1, OutstandingFacts
<1>3. req' = {} /\ UNCHANGED <<result, terminated, cancelled, cancels, emitting,
                              afterwards, overlapped, hurried>>
    BY <1>2 DEF onShutdownDone, cancelVars, callVars
<1>4. /\ chain' \in [Gets -> [op : Operations, st : States] \cup {Unused, Ended}]
      /\ chain'[g] = Ended /\ Ended # Unused
      /\ \A h \in Gets : h # g => chain'[h] = chain[h]
    BY MoveFacts DEF onShutdownDone, End
<1>5. Ended.st \notin {"preparing", "starting"} /\ Ended.op \notin ToWrite
    BY DEF Ended, ToWrite
<1>6. setter \in Gets /\ g <= setter /\ (~overlapped => g = setter)
    BY <1>2, ActiveFacts
<1>7. /\ setter \in Nat /\ \A h \in Gets : h \in Nat
    BY DEF TypeOK, Gets
<1>8. TypeOK'
    BY <1>2, <1>3, <1>4 DEF TypeOK
<1>9. Begun'
    <2>1. \A h \in Gets : h > setter => h # g
        BY <1>6, <1>7
    <2> QED
        BY <1>2, <1>3, <1>4, <2>1 DEF Begun
<1>10. /\ OneAtATime' /\ HurryOverlaps'
       /\ EndedIsAnswered' /\ BehindIsFinished' /\ AnsweredIsFinished'
    <2>1. \A h \in Gets : Finished(h)' <=> Finished(h)
        BY <1>2, <1>4 DEF Finished
    <2>2. OneAtATime' /\ HurryOverlaps'
        BY <1>2, <1>3, <1>4, <1>6, <1>7 DEF OneAtATime, HurryOverlaps
    <2> QED
        BY <1>2, <1>3, <2>1, <2>2 DEF EndedIsAnswered, BehindIsFinished, AnsweredIsFinished, Calm
<1>11. RequestIsKept'
    <2>1. ~overlapped => \A h \in Gets : chain'[h].op \notin ToWrite
        <3> SUFFICES ASSUME ~overlapped, NEW h \in Gets PROVE chain'[h].op \notin ToWrite
            OBVIOUS
        <3>1. CASE h < setter \/ h = setter
            BY <1>4, <1>5, <1>6, <1>7, <3>1 DEF OneAtATime
        <3>2. CASE h > setter
            BY <1>4, <1>6, <1>7, <3>2 DEF Begun, Unused, ToWrite
        <3> QED
            BY <1>7, <3>1, <3>2
    <2> QED
        BY <1>2, <1>3, <2>1 DEF RequestIsKept
<1>12. ValueIsCleared' /\ LateIsLast' /\ AfterwardsIsShort'
    BY <1>2, <1>3, <1>4, <1>5 DEF ValueIsCleared, LateIsLast, AfterwardsIsShort, TypeOK
<1>13. AnsweredByOwnChain' /\ OwnRequestIsSent' /\ CancelOutlivesItsGet'
    BY <1>2, <1>3 DEF AnsweredByOwnChain, OwnRequestIsSent, CancelOutlivesItsGet
<1> QED
    BY <1>8, <1>9, <1>10, <1>11, <1>12, <1>13

\* Every step preserves the invariant.
LEMMA RequestStep == RequestInv /\ [Next]_vars => RequestInv'
<1> SUFFICES ASSUME RequestInv, [Next]_vars PROVE RequestInv'
    OBVIOUS
<1>1. CASE UNCHANGED vars
    BY <1>1 DEF vars, cancelVars, callVars, RequestInv, TypeOK, Begun, HurryOverlaps, OneAtATime,
                EndedIsAnswered, BehindIsFinished, AnsweredIsFinished, Calm, Finished, RequestIsKept,
                ValueIsCleared, LateIsLast, AfterwardsIsShort, AnsweredByOwnChain, OwnRequestIsSent,
                CancelOutlivesItsGet
<1>2. CASE cancelFlag \/ cancelEmit
    BY <1>2, cancelFlagStep, cancelEmitStep
<1>3. ASSUME NEW g \in Gets, GET(g) \/ onReadDoneAfter(g)
      PROVE  RequestInv'
    BY <1>3, GETStep, onReadDoneAfterStep
<1>4. ASSUME NEW g \in Gets, Starts(g)
      PROVE  RequestInv'
    <2>1. ASSUME NEW op \in Operations, StartOnStream(g, op),
                 written' = written \/ (op = "write" /\ written' = [written EXCEPT ![g] = req])
          PROVE  RequestInv'
        <3>1. Start(g, op) /\ slot' \in 0..MaxGets /\ armed' \in BOOLEAN
            BY <2>1 DEF StartOnStream, Gets
        <3> QED
            BY <2>1, <3>1, StartStep
    <2>2. CASE resolve(g)
        <3>1. \E op \in Operations : Start(g, op)
            BY <2>2 DEF resolve, Operations
        <3>2. slot' \in 0..MaxGets /\ armed' \in BOOLEAN /\ written' = written
            BY <2>2 DEF resolve, RequestInv, TypeOK
        <3> QED
            BY <3>1, <3>2, StartStep
    <2>3. CASE write(g)
        BY <2>1, <2>3 DEF write, Operations
    <2>4. CASE connect(g) \/ handshake(g) \/ read(g) \/ shutdown(g)
        <3>1. written' = written /\ \E op \in Operations : StartOnStream(g, op)
            BY <2>4 DEF connect, handshake, read, shutdown, Operations
        <3> QED
            BY <2>1, <3>1
    <2> QED
        BY <1>4, <2>2, <2>3, <2>4, setFieldsStep DEF Starts
<1>5. ASSUME NEW g \in Gets, Handler(g)
      PROVE  RequestInv'
    <2>1. ASSUME NEW error \in BOOLEAN,
                 \/ onResolveDone(g, error) \/ onConnectDone(g, error)
                 \/ onHandshakeDone(g, error) \/ onWriteDone(g, error)
          PROVE  RequestInv'
        BY <2>1, OnDoneStep
        DEF onResolveDone, onConnectDone, onHandshakeDone, onWriteDone, ToWrite, Operations
    <2>2. ASSUME NEW error \in BOOLEAN, onReadDone(g, error)
          PROVE  RequestInv'
        BY <2>2, onReadDoneStep
    <2> QED
        BY <1>5, <2>1, <2>2, onShutdownDoneStep DEF Handler
<1> QED
    BY <1>1, <1>2, <1>3, <1>4, <1>5 DEF Next

\* The parts of RequestInv hold together in every reachable state.
LEMMA RequestInvariant == Spec => []RequestInv
    BY RequestInit, RequestStep, PTL DEF Spec

-----------------------------------------------------------------------------
(* The theorems.                                                           *)

\* HttpRequest keeps its types.
THEOREM RequestTypeCorrect == Spec => []TypeOK
<1>1. RequestInv => TypeOK
    BY DEF RequestInv
<1> QED
    BY RequestInvariant, <1>1, PTL

\* For any number of GETs, each made when the last was no longer pending, each
\* is answered by its own chain of handlers.
THEOREM OwnChainAnswers == Spec => []AnsweredByOwnChain
<1>1. RequestInv => AnsweredByOwnChain
    BY DEF RequestInv
<1> QED
    BY RequestInvariant, <1>1, PTL

\* For any number of GETs made one after the other, what write() sends holds
\* the GET's own fields, and of others only those without a response.
THEOREM OwnRequestGoesOut == Spec => []OwnRequestIsSent
<1>1. RequestInv => OwnRequestIsSent
    BY DEF RequestInv
<1> QED
    BY RequestInvariant, <1>1, PTL

\* However GETs overlap and wherever cancel() comes in, a chain starts at most
\* one operation after it.
THEOREM CancelIsHeard == Spec => []CancelStopsTheChain
<1>1. RequestInv => CancelStopsTheChain
    BY DEF RequestInv, TypeOK, LateIsLast, CancelStopsTheChain
<1> QED
    BY RequestInvariant, <1>1, PTL

\* For any number of GETs and cancellations, however they overlap, a GET made
\* after cancel() reaches no peer and gets no response.
THEOREM CancelIsForGood == Spec => []CancelOutlivesItsGet
<1>1. RequestInv => CancelOutlivesItsGet
    BY DEF RequestInv
<1> QED
    BY RequestInvariant, <1>1, PTL
=============================================================================
