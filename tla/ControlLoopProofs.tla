-------------------------- MODULE ControlLoopProofs --------------------------
(***************************************************************************)
(* Proofs about ControlLoop for chunks of any size, any limits, any number *)
(* of keys, and homings of any length: what the queue holds, and so which  *)
(* actions reach the robot, however R, failures and Ctrl-C fall.           *)
(***************************************************************************)
EXTENDS ControlLoop, SequenceTheorems, TLAPS

(* A key that was handled was typed, and is in no buffer any more.         *)
KeysInv == resets + Len(tty) + Len(stdin) <= typed

(* Before connect() has returned there is nothing to release, and after    *)
(* the loop all of it was.                                                 *)
RobotInv ==
    /\ pc \in {"connect", "capture"} => ~connected
    /\ ConnectedIsReleased

(* Every chunk had an action that was sent or is about to be, and no more  *)
(* actions count towards a limit than were sent.                           *)
CountInv ==
    /\ step <= sends
    /\ sinceQuit <= sends
    /\ pc \in {"select", "send"} => sends < MaxSends
    /\ pc \in InLoop \ {"send"} => chunks <= sends
    /\ pc \in {"connect", "capture"} => chunks = 0 /\ sends = 0
    /\ pc = "send" => chunks <= sends + 1

(* The actions sent since the last R are counted in step, so that each R   *)
(* grants as many as the limit.                                            *)
LimitInv ==
    loops > 0 =>
        /\ pc \in {"connect", "capture", "poll", "observe", "select", "send"}
              => step <= loops /\ sends <= loops * resets + step
        /\ pc \in {"observe", "select", "send"} => step < loops
        /\ pc \in {"reset", "home"} => sends <= loops * resets
        /\ LimitHolds

(* The action that the queue goes on from.                                 *)
Latest == IF pc = "send" THEN action ELSE sent

(* The queue holds the rest of the latest action's chunk, predicted since  *)
(* the last R; when it is empty that chunk was sent to the end, or R came. *)
QueueInv ==
    pc \notin {"reset", "release", "ended"} =>
        /\ \A i \in 1 .. Len(queue) :
              queue[i] = [chunk |-> Latest.chunk,
                          index |-> Latest.index + i,
                          last |-> i = Len(queue),
                          resets |-> resets]
        /\ queue = <<>> => Latest.last \/ resets > Latest.resets

(* The action about to be sent is fresh and follows the one before.        *)
ActionInv ==
    /\ pc = "select" => seen = resets
    /\ pc \in {"reset", "home"} => resets > sent.resets
    /\ pc = "home" => queue = <<>>
    /\ pc = "send" =>
          /\ action.resets = resets
          /\ \/ action.chunk = sent.chunk /\ action.index = sent.index + 1
             \/ /\ action.chunk > sent.chunk /\ action.index = 1
                /\ sent.last \/ action.resets > sent.resets

IInv ==
    /\ TypeOK
    /\ KeysInv
    /\ RobotInv
    /\ CountInv
    /\ LimitInv
    /\ QueueInv
    /\ ActionInv

---------------------------------------------------------------------------
(* run() begins with an empty queue and no action sent.                    *)
LEMMA InitHolds == Init => IInv
<1>. SUFFICES ASSUME Init PROVE IInv
  OBVIOUS
<1>. USE BoundsAssumption DEF Init, NoAction, InLoop
<1>0. NoAction \in Actions
  BY DEF Actions
<1>1. TypeOK
  <2>1. /\ tty \in Seq(Keys) /\ stdin \in Seq(Keys)
        /\ queue \in Seq(Actions) /\ Len(queue) = 0
    BY EmptySeq
  <2>2. connected \in BOOLEAN /\ homing \in BOOLEAN
    OBVIOUS
  <2>. QED
    BY <1>0, <2>1, <2>2 DEF TypeOK
<1>2. KeysInv
  BY EmptySeq DEF KeysInv
<1>3. RobotInv /\ CountInv /\ LimitInv
  BY DEF RobotInv, ConnectedIsReleased, CountInv, LimitInv, LimitHolds
<1>4. QueueInv /\ ActionInv
  BY DEF QueueInv, ActionInv, Latest
<1>. QED
  BY <1>1, <1>2, <1>3, <1>4 DEF IInv

(* What was an action stays one when more is predicted or R comes.         *)
LEMMA ActionsGrow ==
    ASSUME TypeOK, chunks' \in Nat, resets' \in Nat,
           chunks <= chunks', resets <= resets'
    PROVE  /\ \A a \in Actions : a \in Actions'
           /\ \A s \in Seq(Actions) : s \in Seq(Actions')
<1>1. ASSUME NEW c \in Nat, NEW d \in Nat, c <= d,
             NEW r \in Nat, NEW q \in Nat, r <= q
      PROVE  [chunk : 0 .. c, index : 0 .. ChunkSize, last : BOOLEAN,
              resets : 0 .. r]
             \subseteq
             [chunk : 0 .. d, index : 0 .. ChunkSize, last : BOOLEAN,
              resets : 0 .. q]
  <2>. 0 .. c \subseteq 0 .. d /\ 0 .. r \subseteq 0 .. q
    BY <1>1
  <2>. QED
    OBVIOUS
<1> DEFINE S(c, r) == [chunk : 0 .. c, index : 0 .. ChunkSize,
                       last : BOOLEAN, resets : 0 .. r]
<1>2. Actions \subseteq Actions'
  <2>1. chunks \in Nat /\ resets \in Nat
    BY BoundsAssumption DEF TypeOK
  <2>2. Actions = S(chunks, resets) /\ Actions' = S(chunks', resets')
    BY DEF Actions
  <2>3. S(chunks, resets) \subseteq S(chunks', resets')
    BY <1>1, <2>1
  <2> HIDE DEF S
  <2>. QED
    BY <2>2, <2>3
<1>. QED
  BY <1>2, SeqMonotonic

(* Taking the first action of a queue.                                     *)
LEMMA TakeType ==
    ASSUME NEW A, NEW actions \in Seq(A), actions # <<>>,
           TakeAction(actions)
    PROVE  /\ action' \in A /\ action' = actions[1]
           /\ queue' \in Seq(A)
           /\ Len(queue') = Len(actions) - 1
           /\ \A i \in 1 .. Len(queue') : queue'[i] = actions[i + 1]
           /\ pc' = "send"
           /\ error' = error
BY HeadTailProperties DEF TakeAction

LEMMA ChunkType ==
    ASSUME TypeOK, NEW n \in 1 .. ChunkSize, chunks' = chunks + 1,
           resets' = resets
    PROVE  /\ Chunk(n) \in Seq(Actions')
           /\ Len(Chunk(n)) = n
           /\ \A i \in 1 .. n :
                 Chunk(n)[i] = [chunk |-> chunks + 1, index |-> i,
                                last |-> i = n, resets |-> seen]
<1>. USE BoundsAssumption DEF TypeOK
<1>. n \in Nat /\ n \in Int
  OBVIOUS
<1>1. \A i \in 1 .. n : Chunk(n)[i] \in Actions'
  BY DEF Chunk, Actions
<1>2. Chunk(n) \in [1 .. n -> Actions']
  BY <1>1 DEF Chunk
<1>. QED
  BY <1>2, SeqDef, LenProperties DEF Chunk

---------------------------------------------------------------------------
(* Each step of run() and of the operator keeps the types: the bounds on   *)
(* chunks, keys and counters are those of CountInv and KeysInv.            *)
LEMMA TypeStep == TypeOK /\ KeysInv /\ CountInv /\ [Next]_vars => TypeOK'
<1>. SUFFICES ASSUME TypeOK, KeysInv, CountInv, [Next]_vars PROVE TypeOK'
  OBVIOUS
<1>. USE BoundsAssumption DEF TypeOK, InLoop, keyboard, history
<1>0. ASSUME chunks' = chunks, resets' = resets
      PROVE  Actions' = Actions
  BY <1>0 DEF Actions
<1>1. CASE OpenRobot
  BY <1>0, <1>1 DEF OpenRobot
<1>2. CASE CaptureHome
  BY <1>0, <1>2 DEF CaptureHome
<1>3. CASE StopAtLimit
  BY <1>0, <1>3 DEF StopAtLimit, Leave
<1>4. CASE PollNothing
  BY <1>0, <1>4 DEF PollNothing
<1>5. CASE PollKey
  <2>. DEFINE chars == IF stdin = <<>> THEN tty ELSE stdin
  <2>1. chars \in Seq(Keys) /\ chars # <<>>
    BY <1>5 DEF PollKey
  <2>2. Head(chars) \in Keys /\ Tail(chars) \in Seq(Keys)
    BY <2>1, HeadTailProperties
  <2>3. stdin' \in Seq(Keys) /\ tty' \in Seq(Keys)
    BY <1>5, <2>2, EmptySeq DEF PollKey
  <2>4. /\ resets' \in {resets, resets + 1}
        /\ chunks' = chunks
        /\ pc' \in {"release", "reset", "observe"}
        /\ homing' \in BOOLEAN
        /\ error' \in {"none", error}
    BY <1>5 DEF PollKey, Leave
  <2>5. Len(tty) + Len(stdin) > 0 /\ Len(tty) \in Nat /\ Len(stdin) \in Nat
    BY <1>5, EmptySeq, LenProperties DEF PollKey
  <2>6. resets' \in 0 .. MaxKeys
    BY <2>4, <2>5 DEF KeysInv
  <2>7. action \in Actions' /\ sent \in Actions' /\ queue \in Seq(Actions')
    BY <2>4, <2>6, ActionsGrow
  <2>. QED
    BY <1>5, <2>3, <2>4, <2>6, <2>7 DEF PollKey
<1>6. CASE ResetPolicy
  BY <1>0, <1>6, EmptySeq DEF ResetPolicy, Leave
<1>7. CASE MoveHome
  <2>1. Actions' = Actions
    BY <1>0, <1>7 DEF MoveHome
  <2>2. /\ moves' \in {moves, moves + 1} /\ moves' <= HomeMoves
        /\ step' \in {0, step}
        /\ pc' \in {"home", "poll", "release"}
        /\ error' \in {error, "robot"}
    BY <1>7 DEF MoveHome, Leave
  <2>3. homing' \in BOOLEAN
    BY <1>7, Zenon DEF MoveHome
  <2>4. UNCHANGED <<loops, robot, connected, tty, stdin, typed, queue, action,
                    seen, resets, sent, sends, sinceQuit, chunks>>
    BY <1>7 DEF MoveHome
  <2>. QED
    BY <2>1, <2>2, <2>3, <2>4
<1>8. CASE Observe
  BY <1>0, <1>8 DEF Observe, Leave
<1>9. CASE SelectQueued
  <2>1. Actions' = Actions
    BY <1>0, <1>9 DEF SelectQueued
  <2>2. /\ action' \in Actions
        /\ queue' \in Seq(Actions) /\ Len(queue') = Len(queue) - 1
        /\ pc' = "send" /\ error' = error
    BY <1>9, TakeType DEF SelectQueued
  <2>. QED
    BY <1>9, <2>1, <2>2, LenProperties DEF SelectQueued
<1>10. CASE SelectPredicted
  <2>1. CASE Leave("server") /\ UNCHANGED <<queue, action, chunks>>
    BY <1>0, <1>10, <2>1 DEF SelectPredicted, Leave
  <2>2. ASSUME NEW n \in 1 .. ChunkSize, TakeAction(Chunk(n)),
               chunks' = chunks + 1
        PROVE  TypeOK'
    <3>1. Chunk(n) \in Seq(Actions') /\ Len(Chunk(n)) = n
      BY <1>10, <2>2, ChunkType DEF SelectPredicted
    <3>2. /\ action' \in Actions'
          /\ queue' \in Seq(Actions') /\ Len(queue') = n - 1
          /\ pc' = "send" /\ error' = error
      BY <2>2, <3>1, TakeType, EmptySeq
    <3>3. sent \in Actions'
      BY <1>10, <2>2, ActionsGrow DEF SelectPredicted
    <3>4. chunks' \in 0 .. MaxSends
      BY <1>10, <2>2 DEF SelectPredicted, CountInv
    <3>. QED
      BY <1>10, <2>2, <3>2, <3>3, <3>4 DEF SelectPredicted
  <2>. QED
    BY <1>10, <2>1, <2>2 DEF SelectPredicted
<1>11. CASE SendAction
  BY <1>0, <1>11 DEF SendAction, Leave, CountInv
<1>12. CASE Release
  BY <1>0, <1>12 DEF Release
<1>13. ASSUME NEW k \in Keys, TypeKey(k) PROVE TypeOK'
  <2>1. tty' \in Seq(Keys)
    BY <1>13, AppendProperties DEF TypeKey
  <2>. QED
    BY <1>0, <1>13, <2>1 DEF TypeKey
<1>14. CASE Interrupt
  BY <1>0, <1>14 DEF Interrupt, Leave
<1>15. CASE UNCHANGED vars
  BY <1>0, <1>15 DEF vars
<1>. QED
  BY <1>1, <1>2, <1>3, <1>4, <1>5, <1>6, <1>7, <1>8, <1>9, <1>10, <1>11,
     <1>12, <1>13, <1>14, <1>15 DEF Next, Loop, Done

(* A key is typed once, buffered once and handled at most once.            *)
LEMMA KeysStep == TypeOK /\ KeysInv /\ [Next]_vars => KeysInv'
<1>. SUFFICES ASSUME TypeOK, KeysInv, [Next]_vars PROVE KeysInv'
  OBVIOUS
<1>. USE DEF KeysInv, keyboard, history
<1>1. CASE PollKey
  <2>1. Len(tty) \in Nat /\ Len(stdin) \in Nat
    BY LenProperties DEF TypeOK
  <2>2. /\ stdin = <<>> => Len(stdin) = 0 /\ Len(tty') = 0
                           /\ Len(stdin') = Len(tty) - 1
        /\ stdin # <<>> => Len(tty') = Len(tty)
                           /\ Len(stdin') = Len(stdin) - 1
    <3>1. tty \in Seq(Keys) /\ tty # <<>> /\ stdin \in Seq(Keys)
      BY <1>1 DEF PollKey, TypeOK
    <3>2. \A s \in Seq(Keys) : s # <<>> => Len(Tail(s)) = Len(s) - 1
      BY HeadTailProperties
    <3>3. CASE stdin = <<>>
      <4>1. tty' = <<>> /\ stdin' = Tail(tty)
        BY <1>1, <3>3 DEF PollKey
      <4>2. Len(<<>>) = 0
        BY EmptySeq
      <4>. QED
        BY <3>1, <3>2, <3>3, <4>1, <4>2
    <3>4. CASE stdin # <<>>
      <4>1. tty' = tty /\ stdin' = Tail(stdin)
        BY <1>1, <3>4 DEF PollKey
      <4>. QED
        BY <3>1, <3>2, <3>4, <4>1
    <3>. QED
      BY <3>3, <3>4
  <2>3. resets' \in {resets, resets + 1} /\ typed' = typed
    BY <1>1 DEF PollKey
  <2>4. resets \in Nat /\ typed \in Nat
    BY DEF TypeOK
  <2>5. Len(tty') + Len(stdin') + 1 <= Len(tty) + Len(stdin)
    <3>1. CASE stdin = <<>>
      BY <2>1, <2>2, <3>1
    <3>2. CASE stdin # <<>>
      BY <2>1, <2>2, <3>2
    <3>. QED
      BY <3>1, <3>2
  <2>6. Len(tty') \in Nat /\ Len(stdin') \in Nat
    BY <2>1, <2>2
  <2>. QED
    BY <2>1, <2>3, <2>4, <2>5, <2>6
<1>2. ASSUME NEW k \in Keys, TypeKey(k) PROVE KeysInv'
  <2>1. Len(tty') = Len(tty) + 1
    BY <1>2, AppendProperties DEF TypeKey, TypeOK
  <2>2. Len(tty) \in Nat /\ Len(stdin) \in Nat
    BY LenProperties DEF TypeOK
  <2>. QED
    BY <1>2, <2>1, <2>2 DEF TypeKey, TypeOK
<1>3. CASE Loop /\ ~PollKey
  BY <1>3 DEF Loop, OpenRobot, CaptureHome, StopAtLimit, PollNothing,
     ResetPolicy, MoveHome, Observe, SelectQueued, SelectPredicted,
     SendAction, Release
<1>4. CASE Interrupt
  BY <1>4 DEF Interrupt
<1>5. CASE UNCHANGED vars
  BY <1>5 DEF vars
<1>. QED
  BY <1>1, <1>2, <1>3, <1>4, <1>5 DEF Next, Done

(* The finally clause releases what connect() opened.                      *)
LEMMA RobotStep == TypeOK /\ RobotInv /\ [Next]_vars => RobotInv'
<1>. SUFFICES ASSUME TypeOK, RobotInv, [Next]_vars PROVE RobotInv'
  OBVIOUS
<1>. USE DEF RobotInv, ConnectedIsReleased, InLoop
<1>1. CASE OpenRobot \/ CaptureHome
  BY <1>1 DEF OpenRobot, CaptureHome
<1>2. CASE Release
  BY <1>2 DEF Release
<1>3. CASE Loop /\ ~OpenRobot /\ ~CaptureHome /\ ~Release
  BY <1>3 DEF Loop, Leave, StopAtLimit, PollNothing, PollKey, ResetPolicy,
     MoveHome, Observe, SelectQueued, SelectPredicted, TakeAction, SendAction
<1>4. ASSUME NEW k \in Keys, TypeKey(k) PROVE RobotInv'
  BY <1>4 DEF TypeKey
<1>5. CASE Interrupt
  BY <1>5 DEF Interrupt, Leave
<1>6. CASE UNCHANGED vars
  BY <1>6 DEF vars
<1>. QED
  BY <1>1, <1>2, <1>3, <1>4, <1>5, <1>6 DEF Next, Done

(* A chunk is predicted when the queue is empty, and then one is sent.     *)
LEMMA CountStep == TypeOK /\ CountInv /\ [Next]_vars => CountInv'
<1>. SUFFICES ASSUME TypeOK, CountInv, [Next]_vars PROVE CountInv'
  OBVIOUS
<1>. USE BoundsAssumption DEF TypeOK, CountInv, InLoop, history
<1>1. CASE OpenRobot \/ CaptureHome \/ Release
  BY <1>1 DEF OpenRobot, CaptureHome, Release
<1>2. CASE StopAtLimit \/ PollNothing \/ PollKey \/ ResetPolicy
  BY <1>2 DEF StopAtLimit, PollNothing, PollKey, ResetPolicy, Leave
<1>3. CASE MoveHome
  BY <1>3 DEF MoveHome, Leave
<1>4. CASE Observe
  BY <1>4 DEF Observe, Leave
<1>5. CASE SelectQueued \/ SelectPredicted
  BY <1>5 DEF SelectQueued, SelectPredicted, TakeAction, Leave
<1>6. CASE SendAction
  BY <1>6 DEF SendAction, Leave
<1>7. ASSUME NEW k \in Keys, TypeKey(k) PROVE CountInv'
  BY <1>7 DEF TypeKey
<1>8. CASE Interrupt
  BY <1>8 DEF Interrupt, Leave
<1>9. CASE UNCHANGED vars
  BY <1>9 DEF vars
<1>. QED
  BY <1>1, <1>2, <1>3, <1>4, <1>5, <1>6, <1>7, <1>8, <1>9
  DEF Next, Loop, Done

(* Each R sets the counter back, and grants a limit of actions anew.       *)
LEMMA LimitStep == TypeOK /\ LimitInv /\ [Next]_vars => LimitInv'
<1>. SUFFICES ASSUME TypeOK, LimitInv, [Next]_vars PROVE LimitInv'
  OBVIOUS
<1>. DEFINE granted == loops * resets
<1>1. loops \in Nat /\ resets \in Nat /\ sends \in Nat /\ step \in Nat
  BY BoundsAssumption DEF TypeOK
<1>2. /\ granted \in Nat
      /\ loops * (resets + 1) = granted + loops
      /\ loops * (resets + 2) = granted + loops + loops
  BY <1>1
<1>3. loops' = loops
  BY DEF Next, Loop, Done, vars, OpenRobot, CaptureHome, StopAtLimit,
     PollNothing, PollKey, ResetPolicy, MoveHome, Observe, SelectQueued,
     SelectPredicted, SendAction, Release, TypeKey, Interrupt
<1>4. CASE PollKey
  <2>1. CASE resets' = resets + 1 /\ pc' = "reset"
    <3>1. loops * resets' = granted + loops
      BY <1>2, <2>1
    <3>2. loops * (resets' + 1) = granted + loops + loops
      BY <1>1, <1>2, <2>1
    <3>. QED
      BY <1>1, <1>2, <1>3, <1>4, <2>1, <3>1, <3>2
      DEF PollKey, LimitInv, LimitHolds, LimitReached, history
  <2>2. CASE resets' = resets /\ pc' \in {"observe", "release"}
    BY <1>1, <1>2, <1>3, <1>4, <2>2
    DEF PollKey, LimitInv, LimitHolds, LimitReached, history
  <2>. QED
    BY <1>4, <2>1, <2>2 DEF PollKey, Leave
<1>5. CASE resets' = resets
  <2>. USE <1>1, <1>2, <1>3, <1>5
       DEF LimitInv, LimitHolds, LimitReached, history, InLoop
  <2>1. CASE OpenRobot \/ CaptureHome \/ Release
    BY <2>1 DEF OpenRobot, CaptureHome, Release
  <2>2. CASE StopAtLimit \/ PollNothing \/ ResetPolicy
    BY <2>2 DEF StopAtLimit, PollNothing, ResetPolicy, Leave
  <2>3. CASE MoveHome
    BY <2>3 DEF MoveHome, Leave
  <2>4. CASE Observe
    BY <2>4 DEF Observe, Leave
  <2>5. CASE SelectQueued \/ SelectPredicted
    BY <2>5 DEF SelectQueued, SelectPredicted, TakeAction, Leave
  <2>6. CASE SendAction
    BY <2>6 DEF SendAction, Leave
  <2>7. ASSUME NEW k \in Keys, TypeKey(k) PROVE LimitInv'
    BY <2>7 DEF TypeKey
  <2>8. CASE Interrupt
    BY <2>8 DEF Interrupt, Leave
  <2>9. CASE UNCHANGED vars
    BY <2>9 DEF vars
  <2>. QED
    BY <1>4, <2>1, <2>2, <2>3, <2>4, <2>5, <2>6, <2>7, <2>8, <2>9
    DEF Next, Loop, Done
<1>. QED
  BY <1>4, <1>5 DEF Next, Loop, Done, vars, OpenRobot, CaptureHome,
     StopAtLimit, PollNothing, ResetPolicy, MoveHome, Observe, SelectQueued,
     SelectPredicted, SendAction, Release, TypeKey, Interrupt

(* The queue is filled when it is empty, emptied from the front, and       *)
(* cleared by R before anything of it can be sent.                         *)
LEMMA QueueStep ==
    TypeOK /\ QueueInv /\ ActionInv /\ [Next]_vars => QueueInv' /\ ActionInv'
<1>. SUFFICES ASSUME TypeOK, QueueInv, ActionInv, [Next]_vars
              PROVE  QueueInv' /\ ActionInv'
  OBVIOUS
<1>. USE DEF QueueInv, ActionInv, Latest, InLoop
<1>1. CASE OpenRobot \/ CaptureHome
  BY <1>1 DEF OpenRobot, CaptureHome, history
<1>2. CASE StopAtLimit \/ PollNothing
  BY <1>2 DEF StopAtLimit, PollNothing, Leave, history
<1>3. CASE PollKey
  <2>1. sent.resets \in 0 .. resets
    BY DEF TypeOK, Actions
  <2>2. resets' = resets + 1 \/ (resets' = resets /\ pc' # "reset")
    BY <1>3 DEF PollKey, Leave
  <2>3. resets \in Nat
    BY DEF TypeOK
  <2>. QED
    BY <1>3, <2>1, <2>2, <2>3 DEF PollKey, Leave, history
<1>4. CASE ResetPolicy
  BY <1>4 DEF ResetPolicy, Leave, history
<1>5. CASE MoveHome
  BY <1>5 DEF MoveHome, Leave, history
<1>6. CASE Observe
  BY <1>6 DEF Observe, Leave, history
<1>7. CASE SelectQueued
  <2>1. /\ action' = queue[1]
        /\ queue' \in Seq(Actions)
        /\ Len(queue') = Len(queue) - 1
        /\ \A i \in 1 .. Len(queue') : queue'[i] = queue[i + 1]
        /\ pc' = "send"
    BY <1>7, TakeType DEF SelectQueued, TypeOK
  <2>2. Len(queue) \in Nat /\ Len(queue) > 0
    BY <1>7, LenProperties, EmptySeq DEF SelectQueued, TypeOK
  <2>3. UNCHANGED <<sent, resets>>
    BY <1>7 DEF SelectQueued, history
  <2>4. action' = [chunk |-> sent.chunk, index |-> sent.index + 1,
                   last |-> 1 = Len(queue), resets |-> resets]
    BY <1>7, <2>1, <2>2 DEF SelectQueued
  <2>5. sent.index \in Nat
    BY BoundsAssumption DEF TypeOK, Actions
  <2>6. ASSUME NEW i \in 1 .. Len(queue')
        PROVE  queue'[i] = [chunk |-> action'.chunk,
                            index |-> action'.index + i,
                            last |-> i = Len(queue'), resets |-> resets]
    <3>1. queue'[i] = queue[i + 1] /\ i + 1 \in 1 .. Len(queue)
      BY <2>1, <2>2, <2>6
    <3>2. queue[i + 1] = [chunk |-> sent.chunk, index |-> sent.index + (i + 1),
                          last |-> i + 1 = Len(queue), resets |-> resets]
      BY <1>7, <3>1 DEF SelectQueued
    <3>3. (i + 1 = Len(queue)) = (i = Len(queue'))
      BY <2>1, <2>2
    <3>4. action'.index + i = sent.index + (i + 1)
      <4>1. action'.index = sent.index + 1
        BY <2>4
      <4>. QED
        BY <2>5, <4>1
    <3>. QED
      BY <2>4, <3>1, <3>2, <3>3, <3>4
  <2>7. ASSUME queue' = <<>> PROVE action'.last
    <3>1. 1 = Len(queue)
      BY <2>1, <2>2, <2>7, EmptySeq
    <3>. QED
      BY <2>4, <3>1
  <2>. QED
    BY <2>1, <2>3, <2>4, <2>6, <2>7
<1>8. CASE SelectPredicted
  <2>1. CASE Leave("server")
    BY <1>8, <2>1 DEF SelectPredicted, Leave
  <2>2. ASSUME NEW n \in 1 .. ChunkSize, TakeAction(Chunk(n)),
               chunks' = chunks + 1
        PROVE  QueueInv' /\ ActionInv'
    <3>1. /\ Chunk(n) \in Seq(Actions') /\ Len(Chunk(n)) = n
          /\ \A i \in 1 .. n :
                Chunk(n)[i] = [chunk |-> chunks + 1, index |-> i,
                               last |-> i = n, resets |-> seen]
      BY <1>8, <2>2, ChunkType DEF SelectPredicted
    <3>2. n \in Nat /\ n >= 1
      BY BoundsAssumption
    <3>3. /\ action' = Chunk(n)[1]
          /\ queue' \in Seq(Actions') /\ Len(queue') = n - 1
          /\ \A i \in 1 .. n - 1 : queue'[i] = Chunk(n)[i + 1]
          /\ pc' = "send"
      BY <2>2, <3>1, <3>2, TakeType, EmptySeq
    <3>4. UNCHANGED <<sent, resets>> /\ seen = resets
      BY <1>8 DEF SelectPredicted
    <3>5. action' = [chunk |-> chunks + 1, index |-> 1, last |-> 1 = n,
                     resets |-> resets]
      BY <3>1, <3>2, <3>3, <3>4
    <3>6. ASSUME NEW i \in 1 .. Len(queue')
          PROVE  queue'[i] = [chunk |-> action'.chunk,
                              index |-> action'.index + i,
                              last |-> i = Len(queue'), resets |-> resets]
      <4>1. queue'[i] = Chunk(n)[i + 1] /\ i + 1 \in 1 .. n
        BY <3>2, <3>3, <3>6
      <4>2. queue'[i] = [chunk |-> chunks + 1, index |-> i + 1,
                         last |-> i + 1 = n, resets |-> resets]
        BY <3>1, <3>4, <4>1
      <4>3. (i + 1 = n) = (i = Len(queue')) /\ action'.index + i = i + 1
        BY <3>2, <3>3, <3>5
      <4>. QED
        BY <3>5, <4>2, <4>3
    <3>7. ASSUME queue' = <<>> PROVE action'.last
      <4>1. 1 = n
        BY <3>2, <3>3, <3>7, EmptySeq
      <4>. QED
        BY <3>5, <4>1
    <3>8. action'.chunk > sent.chunk
      BY <3>5, BoundsAssumption DEF TypeOK, Actions
    <3>9. sent.last \/ resets > sent.resets
      BY <1>8 DEF SelectPredicted
    <3>. QED
      BY <3>3, <3>4, <3>5, <3>6, <3>7, <3>8, <3>9
  <2>. QED
    BY <1>8, <2>1, <2>2 DEF SelectPredicted
<1>9. CASE SendAction
  BY <1>9 DEF SendAction, Leave
<1>10. CASE Release
  BY <1>10 DEF Release
<1>11. ASSUME NEW k \in Keys, TypeKey(k) PROVE QueueInv' /\ ActionInv'
  BY <1>11 DEF TypeKey, history
<1>12. CASE Interrupt
  BY <1>12 DEF Interrupt, Leave
<1>13. CASE UNCHANGED vars
  BY <1>13 DEF vars, history
<1>. QED
  BY <1>1, <1>2, <1>3, <1>4, <1>5, <1>6, <1>7, <1>8, <1>9, <1>10, <1>11,
     <1>12, <1>13 DEF Next, Loop, Done

---------------------------------------------------------------------------
(* The parts are kept by every step of run() and of the operator.          *)
THEOREM Invariance == Spec => []IInv
<1>1. IInv /\ [Next]_vars => IInv'
  BY TypeStep, KeysStep, RobotStep, CountStep, LimitStep, QueueStep DEF IInv
<1>. QED
  BY InitHolds, <1>1, PTL DEF Spec

(* Whatever raises in run(), its counters and its queue have their types,  *)
(* and the queue never holds a whole chunk.                                *)
THEOREM TypeCorrect == Spec => []TypeOK
<1>1. IInv => TypeOK
  BY DEF IInv
<1>. QED
  BY Invariance, <1>1, PTL

(* The finally clause of run(): a robot that connect() handed over is      *)
(* released however the loop ends.                                         *)
THEOREM RobotIsReleased == Spec => []ConnectedIsReleased
<1>1. IInv => ConnectedIsReleased
  BY DEF IInv, RobotInv
<1>. QED
  BY Invariance, <1>1, PTL

(* cfg.loops bounds the actions sent, anew after every R.                  *)
THEOREM LimitAlwaysHolds == Spec => []LimitHolds
<1>1. IInv => LimitHolds
  BY DEF IInv, LimitInv, LimitHolds
<1>. QED
  BY Invariance, <1>1, PTL

(* Only SendAction counts an action as sent, and it is the one selected.   *)
LEMMA SentBySendAction ==
    TypeOK /\ [Next]_vars /\ sends' # sends =>
        pc = "send" /\ sent' = action /\ resets' = resets
<1>. SUFFICES ASSUME TypeOK, [Next]_vars, sends' # sends
              PROVE  pc = "send" /\ sent' = action /\ resets' = resets
  OBVIOUS
<1>1. SendAction
  BY DEF Next, Loop, Done, vars, history, OpenRobot, CaptureHome,
     StopAtLimit, PollNothing, PollKey, ResetPolicy, MoveHome, Observe,
     SelectQueued, SelectPredicted, Release, TypeKey, Interrupt
<1>. QED
  BY <1>1 DEF SendAction

(* BasePolicy.reset and the order of select_action and send_action: no     *)
(* action predicted before R is sent after it.                             *)
THEOREM ActionsAreFresh == Spec => NoStaleAction
<1>1. IInv /\ [Next]_vars => [sends' # sends => sent'.resets = resets]_vars
  BY SentBySendAction DEF IInv, ActionInv
<1>. QED
  BY Invariance, <1>1, PTL DEF Spec, NoStaleAction

(* BasePolicy.select_action: the actions of a chunk reach the robot one    *)
(* after the other and to the last, unless R comes in between.             *)
THEOREM ChunksAreWhole == Spec => ChunksInOrder
<1>. DEFINE Follows ==
        \/ sent'.chunk = sent.chunk /\ sent'.index = sent.index + 1
        \/ /\ sent'.chunk > sent.chunk /\ sent'.index = 1
           /\ sent.last \/ sent'.resets > sent.resets
<1>1. IInv /\ [Next]_vars => [sends' # sends => Follows]_vars
  BY SentBySendAction DEF IInv, ActionInv
<1>. QED
  BY Invariance, <1>1, PTL DEF Spec, ChunksInOrder
=============================================================================
