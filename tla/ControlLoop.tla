---------------------------- MODULE ControlLoop ----------------------------
(***************************************************************************)
(* The synchronous control loop of a robot client (robot_client/policy:    *)
(* sync_loop.py, base_policy.py) with the SO-101 platform                  *)
(* (eval/lerobot_so101: so101_client.py, utils/stdin.py).                  *)
(*                                                                         *)
(* One iteration polls the keyboard, observes, takes the next action of    *)
(* the queue, asking the model server for a new chunk only when the queue  *)
(* is empty, and sends it to the robot.  R clears the queue, resets the    *)
(* server and moves the arm home; Q leaves.  Any call may raise, and the   *)
(* operator may press Ctrl-C at any time.                                  *)
(***************************************************************************)
EXTENDS Naturals, Sequences

CONSTANTS
    ChunkSize,  \* most actions of one chunk
    LoopLimits, \* values of cfg.loops, 0 for no limit
    HomeMoves,  \* actions sent by one on_reset_home
    MaxKeys,    \* bound: keys the operator types
    MaxSends    \* bound: actions sent in one run

ASSUME BoundsAssumption ==
    /\ ChunkSize \in Nat \ {0} /\ HomeMoves \in Nat \ {0}
    /\ MaxKeys \in Nat /\ MaxSends \in Nat
    /\ LoopLimits \subseteq Nat

Keys == {"q", "r", "other"}

VARIABLES
    pc,         \* the next step of run()
    loops,      \* cfg.loops
    robot,      \* whether the robot's port and cameras are open
    connected,  \* platform.connect() has returned
    tty,        \* keys typed and not yet read from the terminal
    stdin,      \* keys in the buffer of sys.stdin
    queue,      \* policy.action_queue
    action,     \* the action select_action returned
    step,       \* the step counter of run()
    seen,       \* number of R presses when the observation was taken
    moves,      \* actions sent by the on_reset_home under way
    homing,     \* R was pressed and the arm is not home yet
    error,      \* what raised the exception that ended the loop
    resets,     \* history: R presses handled
    chunks,     \* history: chunks predicted
    sent,       \* history: the last action sent
    sends,      \* history: number of actions sent
    typed,      \* history: number of keys typed
    sinceQuit   \* history: actions sent since Q was first typed

keyboard == <<tty, stdin, typed>>
history == <<sent, sends, sinceQuit, chunks>>
vars == <<pc, loops, robot, connected, keyboard, queue, action, step, seen,
          moves, homing, error, resets, history>>

NoAction == [chunk |-> 0, index |-> 0, last |-> TRUE, resets |-> 0]

Init ==
    /\ pc = "connect"
    /\ loops \in LoopLimits
    /\ robot = "closed"
    /\ connected = FALSE
    /\ tty = <<>> /\ stdin = <<>> /\ typed = 0
    /\ queue = <<>>
    /\ action = NoAction
    /\ step = 0 /\ seen = 0 /\ moves = 0
    /\ homing = FALSE
    /\ error = "none"
    /\ resets = 0 /\ chunks = 0
    /\ sent = NoAction
    /\ sends = 0 /\ sinceQuit = 0

InLoop == {"poll", "observe", "select", "send", "reset", "home"}

---------------------------------------------------------------------------
(* Leaving the loop *)

(* Mutant: no finally, an exception leaves run() at once.                  *)
LeaveAtOnce(e) == pc' = "ended" /\ error' = e

(* Inside try, an exception goes to the finally clause.                    *)
Leave(e) == pc' = "release" /\ error' = e

Release ==
    /\ pc = "release"
    /\ pc' = "ended"
    /\ robot' = "closed"
    /\ UNCHANGED <<loops, connected, keyboard, queue, action, step, seen,
                   moves, homing, error, resets, history>>

(* Ctrl-C: connect() is outside the try block.  One in the midst of        *)
(* disconnect() is left out: what it leaves open is up to the robot's SDK. *)
Interrupt ==
    /\ \/ pc \in InLoop /\ Leave("interrupt")
       \/ pc \in {"connect", "capture"} /\ pc' = "ended" /\ error' = "interrupt"
    /\ UNCHANGED <<loops, robot, connected, keyboard, queue, action, step,
                   seen, moves, homing, resets, history>>

---------------------------------------------------------------------------
(* SO101Platform.connect: open the robot, then take the home pose from a   *)
(* first observation.                                                      *)

OpenRobot ==
    /\ pc = "connect"
    /\ \/ pc' = "capture" /\ robot' = "open" /\ UNCHANGED error
       \/ pc' = "ended" /\ error' = "robot" /\ UNCHANGED robot
    /\ UNCHANGED <<loops, connected, keyboard, queue, action, step, seen,
                   moves, homing, resets, history>>

CaptureHome ==
    /\ pc = "capture"
    /\ \/ pc' = "poll" /\ connected' = TRUE /\ UNCHANGED error
       \/ pc' = "ended" /\ error' = "robot" /\ UNCHANGED connected
    /\ UNCHANGED <<loops, robot, keyboard, queue, action, step, seen, moves,
                   homing, resets, history>>

---------------------------------------------------------------------------
(* The keyboard *)

TypeKey(k) ==
    /\ pc # "ended"
    /\ typed < MaxKeys
    /\ tty' = Append(tty, k)
    /\ typed' = typed + 1
    /\ UNCHANGED <<pc, loops, robot, connected, stdin, queue, action, step,
                   seen, moves, homing, error, resets, history>>

(* Mutant: an off-by-one of the limit.                                     *)
LimitPassed == loops > 0 /\ step > loops

LimitReached == loops > 0 /\ step >= loops

StopAtLimit ==
    /\ pc = "poll"
    /\ LimitReached
    /\ Leave("none")
    /\ UNCHANGED <<loops, robot, connected, keyboard, queue, action, step,
                   seen, moves, homing, resets, history>>

(* select() looks at the terminal only, not at the buffer of sys.stdin.    *)
PollNothing ==
    /\ pc = "poll"
    /\ ~LimitReached
    /\ tty = <<>>
    /\ pc' = "observe"
    /\ UNCHANGED <<loops, robot, connected, keyboard, queue, action, step,
                   seen, moves, homing, error, resets, history>>

(* sys.stdin.read(1) takes a key from its buffer or, when that is empty,   *)
(* fills it with all that was typed.                                       *)
PollKey ==
    /\ pc = "poll"
    /\ ~LimitReached
    /\ tty # <<>>
    /\ LET chars == IF stdin = <<>> THEN tty ELSE stdin
           key == Head(chars)
       IN  /\ stdin' = Tail(chars)
           /\ tty' = IF stdin = <<>> THEN <<>> ELSE tty
           /\ \/ key = "q" /\ Leave("none") /\ UNCHANGED <<resets, homing>>
              \/ /\ key = "r"
                 /\ pc' = "reset"
                 /\ resets' = resets + 1
                 /\ homing' = TRUE
                 /\ UNCHANGED error
              \/ /\ key = "other"
                 /\ pc' = "observe"
                 /\ UNCHANGED <<resets, homing, error>>
    /\ UNCHANGED <<loops, robot, connected, typed, queue, action, step, seen,
                   moves, history>>

---------------------------------------------------------------------------
(* R *)

(* Mutant: BasePolicy.reset leaves the queue alone.                        *)
ResetPolicyOnServer ==
    /\ pc = "reset"
    /\ moves' = 0
    /\ \/ pc' = "home" /\ UNCHANGED error
       \/ Leave("server")
    /\ UNCHANGED <<loops, robot, connected, keyboard, queue, action, step,
                   seen, homing, resets, history>>

(* BasePolicy.reset clears the queue and then calls the server.            *)
ResetPolicy ==
    /\ pc = "reset"
    /\ queue' = <<>>
    /\ moves' = 0
    /\ \/ pc' = "home" /\ UNCHANGED error
       \/ Leave("server")
    /\ UNCHANGED <<loops, robot, connected, keyboard, action, step, seen,
                   homing, resets, history>>

MoveHome ==
    /\ pc = "home"
    /\ \/ /\ moves < HomeMoves
          /\ moves' = moves + 1
          /\ UNCHANGED <<pc, step, homing, error>>
       \/ /\ moves = HomeMoves
          /\ homing' = FALSE
          /\ step' = 0
          /\ pc' = "poll"
          /\ UNCHANGED <<moves, error>>
       \/ Leave("robot") /\ UNCHANGED <<moves, step, homing>>
    /\ UNCHANGED <<loops, robot, connected, keyboard, queue, action, seen,
                   resets, history>>

---------------------------------------------------------------------------
(* _predict_and_execute *)

Observe ==
    /\ pc = "observe"
    /\ sends < MaxSends
    /\ \/ pc' = "select" /\ seen' = resets /\ UNCHANGED error
       \/ Leave("robot") /\ UNCHANGED seen
    /\ UNCHANGED <<loops, robot, connected, keyboard, queue, action, step,
                   moves, homing, resets, history>>

Chunk(n) ==
    [i \in 1 .. n |-> [chunk |-> chunks + 1, index |-> i, last |-> i = n,
                       resets |-> seen]]

(* Mutant: actions are taken from the queue's other end.                   *)
TakeLast(actions) ==
    /\ action' = actions[Len(actions)]
    /\ queue' = SubSeq(actions, 1, Len(actions) - 1)
    /\ pc' = "send"
    /\ UNCHANGED error

(* select_action: popleft of the queue.                                    *)
TakeAction(actions) ==
    /\ action' = Head(actions)
    /\ queue' = Tail(actions)
    /\ pc' = "send"
    /\ UNCHANGED error

SelectQueued ==
    /\ pc = "select"
    /\ queue # <<>>
    /\ TakeAction(queue)
    /\ UNCHANGED <<loops, robot, connected, keyboard, step, seen, moves,
                   homing, resets, history>>

(* Mutant: a chunk is predicted for every observation.                     *)
SelectAlwaysPredicts ==
    /\ pc = "select"
    /\ chunks' = chunks + 1
    /\ \E n \in 1 .. ChunkSize : TakeAction(queue \o Chunk(n))
    /\ UNCHANGED <<loops, robot, connected, keyboard, step, seen, moves,
                   homing, resets, sent, sends, sinceQuit>>

(* A refused, lost or timed-out call, an error status or an empty chunk    *)
(* raises.                                                                 *)
SelectPredicted ==
    /\ pc = "select"
    /\ queue = <<>>
    /\ \/ /\ \E n \in 1 .. ChunkSize : TakeAction(Chunk(n))
          /\ chunks' = chunks + 1
       \/ Leave("server") /\ UNCHANGED <<queue, action, chunks>>
    /\ UNCHANGED <<loops, robot, connected, keyboard, step, seen, moves,
                   homing, resets, sent, sends, sinceQuit>>

QuitTyped == \E i \in DOMAIN (stdin \o tty) : (stdin \o tty)[i] = "q"

SendAction ==
    /\ pc = "send"
    /\ \/ /\ pc' = "poll"
          /\ step' = step + 1
          /\ sent' = action
          /\ sends' = sends + 1
          /\ sinceQuit' = IF QuitTyped THEN sinceQuit + 1 ELSE 0
          /\ UNCHANGED error
       \/ Leave("robot") /\ UNCHANGED <<step, sent, sends, sinceQuit>>
    /\ UNCHANGED <<loops, robot, connected, keyboard, queue, action, seen,
                   moves, homing, resets, chunks>>

Loop ==
    \/ OpenRobot
    \/ CaptureHome
    \/ StopAtLimit
    \/ PollNothing
    \/ PollKey
    \/ ResetPolicy
    \/ MoveHome
    \/ Observe
    \/ SelectQueued
    \/ SelectPredicted
    \/ SendAction
    \/ Release

(* The run has ended, or the bound on it is reached.                       *)
Done ==
    /\ pc = "ended" \/ (pc = "observe" /\ sends = MaxSends)
    /\ UNCHANGED vars

Next ==
    \/ Loop
    \/ \E k \in Keys : TypeKey(k)
    \/ Interrupt
    \/ Done

Spec == Init /\ [][Next]_vars

---------------------------------------------------------------------------
(* Properties *)

Actions ==
    [chunk : 0 .. chunks, index : 0 .. ChunkSize, last : BOOLEAN,
     resets : 0 .. resets]

TypeOK ==
    /\ pc \in {"connect", "capture", "release", "ended"} \cup InLoop
    /\ loops \in LoopLimits
    /\ robot \in {"closed", "open"}
    /\ connected \in BOOLEAN
    /\ tty \in Seq(Keys) /\ stdin \in Seq(Keys)
    /\ queue \in Seq(Actions) /\ Len(queue) < ChunkSize
    /\ action \in Actions
    /\ step \in 0 .. MaxSends
    /\ seen \in 0 .. resets
    /\ moves \in 0 .. HomeMoves
    /\ homing \in BOOLEAN
    /\ error \in {"none", "robot", "server", "interrupt"}
    /\ resets \in 0 .. MaxKeys
    /\ chunks \in 0 .. MaxSends
    /\ sent \in Actions
    /\ sends \in 0 .. MaxSends
    /\ typed \in 0 .. MaxKeys
    /\ sinceQuit \in 0 .. MaxSends

(* An action the policy predicted before R was pressed is never sent after *)
(* the arm was moved home: the queue is cleared, and nothing of the old    *)
(* chunk is on its way.                                                    *)
NoStaleAction == [][sends' # sends => sent'.resets = resets]_vars

(* The actions of a chunk are sent one after the other and to the last,    *)
(* and another chunk begins only then, or after R.                         *)
ChunksInOrder ==
    [][sends' # sends =>
          \/ sent'.chunk = sent.chunk /\ sent'.index = sent.index + 1
          \/ /\ sent'.chunk > sent.chunk /\ sent'.index = 1
             /\ sent.last \/ sent'.resets > sent.resets]_vars

(* Once connect() has returned, the robot is released however the loop     *)
(* ends: by Q, the limit, an exception in any call, or Ctrl-C.             *)
ConnectedIsReleased == pc = "ended" /\ connected => robot = "closed"

(* With a limit, a run sends at most that many actions, and once more as   *)
(* many after every R.                                                     *)
LimitHolds == loops > 0 => sends <= loops * (resets + 1)

(* setup_robot_en.md: "Q: exit the sync control loop".  After Q was typed  *)
(* the loop sends the action under way and at most one for each key typed  *)
(* before it.                                                              *)
QuitIsPrompt == sinceQuit <= MaxKeys

(* setup_robot_en.md: "R: clear the action queue and move the arm back to  *)
(* the home pose": when R was pressed, only a failing robot or Ctrl-C      *)
(* keeps the loop from moving the arm home.                                *)
ResetMovesHome == pc = "ended" /\ homing => error \in {"robot", "interrupt"}
=============================================================================
