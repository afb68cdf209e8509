---------------------------- MODULE CaptureProofs ----------------------------
(***************************************************************************)
(* Proofs about Capture, for pipes and outputs of any size: a capture      *)
(* that succeeds has everything, and no return leaves the child or the     *)
(* drainer behind.                                                         *)
(***************************************************************************)
EXTENDS Capture, TLAPS

-----------------------------------------------------------------------------
(* The inductive invariant.                                                *)

Early   == {"setup", "spawn"}                       \* there is no child yet
Killed  == {"drain_out", "drain_err"}               \* the drainer could not be started
Between == {"close", "start", "read", "join", "wait"} \cup Killed
Ended   == {"done", "returned"}

Types ==
    /\ streams \subseteq Streams /\ drainer \in {"none", "reading", "ended"}
    /\ pc \in Early \cup Between \cup Ended
    /\ ends \in [Streams -> SUBSET {"read", "write"}]
    /\ holders \in [Streams -> SUBSET {"child", "helper"}]
    /\ written \in [Streams -> Nat] /\ got \in [Streams -> Nat]
    /\ wants \in streams \cup {"exit"}
    /\ child \in {"none", "running", "zombie", "reaped"}
    /\ io_ok \in [Streams -> BOOLEAN] /\ io_err \in [Streams -> BOOLEAN]
    /\ thrown \in Kinds /\ result \in {"none", "true", "false"}

PipesBounded ==
    \A s \in Streams : got[s] <= written[s] /\ written[s] <= got[s] + PipeSize

\* The child exists from the spawn to the wait, and holds the write ends as long as it
\* runs.
ChildStage ==
    /\ pc \in Early => child = "none"
    /\ pc \in Between => child \in {"running", "zombie"}
    /\ pc \in Ended => child \in {"none", "reaped"}
    /\ child = "none" => \A s \in Streams : holders[s] = {}
    /\ child = "running" => \A s \in streams : "child" \in holders[s]

\* The drainer reads only while the call does, and the call waits for its end.
DrainerStage ==
    /\ pc \in Early \cup {"close", "start"} \cup Killed => drainer = "none"
    /\ pc \in {"start", "join"} \cup Killed => Both
    /\ drainer # "none" => Both
    /\ Both /\ pc \in {"read", "join"} => drainer # "none"
    /\ Both /\ pc = "wait" => drainer = "ended" \/ ~io_ok["out"]
    /\ pc \in {"wait", "done", "returned"} => drainer # "reading"
    /\ pc = "read" => streams # {}

\* A stream that has been read without a failure is at its end for good.
ReadToTheEnd ==
    /\ pc \in Between \ {"close"} => \A s \in Streams : "write" \notin ends[s]
    /\ pc \in {"join", "wait"} /\ streams # {} /\ io_ok[First] => Eof(First)
    /\ drainer = "ended" /\ io_ok["err"] /\ pc \in Between => Eof("err")
    /\ pc \in Killed => ~io_ok["out"]

\* What has gone wrong is in *perr or will be when the call returns.
FailureKept ==
    /\ pc \notin Ended =>
          /\ thrown \in {"none", "drainer"} /\ result = "none"
          /\ thrown # "none" => ~io_ok["out"]
          /\ \A s \in Streams : io_err[s] => ~io_ok[s]
          /\ \A s \in Streams : ~io_ok[s] => io_err[s] \/ thrown # "none"
    /\ pc \in Ended => result # "none" /\ (result = "false" <=> thrown # "none")

Inv ==
    /\ Types /\ PipesBounded /\ ChildStage /\ DrainerStage /\ ReadToTheEnd /\ FailureKept
    /\ AllCaptured

LEMMA InvInit == Init => Inv
  <1> SUFFICES ASSUME Init PROVE Inv
    OBVIOUS
  <1> USE SizesAssumption DEF Init
  <1>1. Types /\ PipesBounded
    BY DEF Types, PipesBounded, Streams, Kinds, Early
  <1>2. ChildStage /\ DrainerStage /\ ReadToTheEnd /\ FailureKept /\ AllCaptured
    BY DEF ChildStage, DrainerStage, ReadToTheEnd, FailureKept, AllCaptured, Early,
           Between, Killed, Ended
  <1> QED
    BY <1>1, <1>2 DEF Inv

-----------------------------------------------------------------------------
(* One lemma for each action.                                              *)

\* The child writes only to a pipe that it holds.
LEMMA ChildWritesKeeps ==
    ASSUME Inv, NEW s \in Streams, ChildWrites(s)
    PROVE  Inv'
  <1> USE SizesAssumption DEF ChildWrites, Room, Wants, parent, Both, First,
                              Streams
  <1>0. Types /\ PipesBounded /\ ChildStage /\ DrainerStage /\ ReadToTheEnd /\ FailureKept
        /\ AllCaptured
    BY DEF Inv
  <1>1. Types'
    BY <1>0 DEF Types, Kinds, Early, Between, Killed, Ended
  <1>2. PipesBounded'
    BY <1>0 DEF Types, PipesBounded
  <1>3. ChildStage'
    BY <1>0 DEF Types, ChildStage, DrainerStage, Early, Between, Killed, Ended
  <1>4. DrainerStage'
    BY <1>0 DEF Types, DrainerStage, ReadToTheEnd, Early, Between, Killed,
           Ended
  <1>5. ReadToTheEnd'
    BY <1>0 DEF Types, ChildStage, DrainerStage, ReadToTheEnd, Eof, Early,
           Between, Killed, Ended
  <1>6. FailureKept'
    BY <1>0 DEF Types, FailureKept, ReadToTheEnd, DrainerStage, Kinds, Early,
           Between, Killed, Ended
  <1>7. AllCaptured'
    BY <1>0 DEF Types, ChildStage, DrainerStage, ReadToTheEnd, FailureKept,
           AllCaptured, Eof, Early, Between, Killed, Ended
  <1> QED
    BY <1>1, <1>2, <1>3, <1>4, <1>5, <1>6, <1>7 DEF Inv

\* A child that exits gives up its ends, or leaves them to its helper.
LEMMA ChildExitsKeeps ==
    ASSUME Inv, ChildExits
    PROVE  Inv'
  <1> USE SizesAssumption DEF ChildExits, parent, Both, First, Streams
  <1>0. Types /\ PipesBounded /\ ChildStage /\ DrainerStage /\ ReadToTheEnd /\ FailureKept
        /\ AllCaptured
    BY DEF Inv
  <1>1. Types'
    BY <1>0 DEF Types, Kinds, Early, Between, Killed, Ended
  <1>2. PipesBounded'
    BY <1>0 DEF Types, PipesBounded
  <1>3. ChildStage'
    BY <1>0 DEF Types, ChildStage, DrainerStage, Early, Between, Killed, Ended
  <1>4. DrainerStage'
    BY <1>0 DEF Types, DrainerStage, ReadToTheEnd, Early, Between, Killed,
           Ended
  <1>5. ReadToTheEnd'
    BY <1>0 DEF Types, ChildStage, DrainerStage, ReadToTheEnd, Eof, Early,
           Between, Killed, Ended
  <1>6. FailureKept'
    BY <1>0 DEF Types, FailureKept, ReadToTheEnd, DrainerStage, Kinds, Early,
           Between, Killed, Ended
  <1>7. AllCaptured'
    BY <1>0 DEF Types, ChildStage, DrainerStage, ReadToTheEnd, FailureKept,
           AllCaptured, Eof, Early, Between, Killed, Ended
  <1> QED
    BY <1>1, <1>2, <1>3, <1>4, <1>5, <1>6, <1>7 DEF Inv

\* A helper has only ends to give up.
LEMMA HelperExitsKeeps ==
    ASSUME Inv, HelperExits
    PROVE  Inv'
  <1> USE SizesAssumption DEF HelperExits, parent, Both, First, Streams
  <1>0. Types /\ PipesBounded /\ ChildStage /\ DrainerStage /\ ReadToTheEnd /\ FailureKept
        /\ AllCaptured
    BY DEF Inv
  <1>1. Types'
    BY <1>0 DEF Types, Kinds, Early, Between, Killed, Ended
  <1>2. PipesBounded'
    BY <1>0 DEF Types, PipesBounded
  <1>3. ChildStage'
    BY <1>0 DEF Types, ChildStage, DrainerStage, Early, Between, Killed, Ended
  <1>4. DrainerStage'
    BY <1>0 DEF Types, DrainerStage, ReadToTheEnd, Early, Between, Killed,
           Ended
  <1>5. ReadToTheEnd'
    BY <1>0 DEF Types, ChildStage, DrainerStage, ReadToTheEnd, Eof, Early,
           Between, Killed, Ended
  <1>6. FailureKept'
    BY <1>0 DEF Types, FailureKept, ReadToTheEnd, DrainerStage, Kinds, Early,
           Between, Killed, Ended
  <1>7. AllCaptured'
    BY <1>0 DEF Types, ChildStage, DrainerStage, ReadToTheEnd, FailureKept,
           AllCaptured, Eof, Early, Between, Killed, Ended
  <1> QED
    BY <1>1, <1>2, <1>3, <1>4, <1>5, <1>6, <1>7 DEF Inv

\* A failed set-up is reported.
LEMMA SetupKeeps ==
    ASSUME Inv, Setup
    PROVE  Inv'
  <1> USE SizesAssumption DEF Setup, parent, Both, First, Streams
  <1>0. Types /\ PipesBounded /\ ChildStage /\ DrainerStage /\ ReadToTheEnd /\ FailureKept
        /\ AllCaptured
    BY DEF Inv
  <1>1. Types'
    BY <1>0 DEF Types, Kinds, Early, Between, Killed, Ended
  <1>2. PipesBounded'
    BY <1>0 DEF Types, PipesBounded
  <1>3. ChildStage'
    BY <1>0 DEF Types, ChildStage, DrainerStage, Early, Between, Killed, Ended
  <1>4. DrainerStage'
    BY <1>0 DEF Types, DrainerStage, ReadToTheEnd, Early, Between, Killed,
           Ended
  <1>5. ReadToTheEnd'
    BY <1>0 DEF Types, ChildStage, DrainerStage, ReadToTheEnd, Eof, Early,
           Between, Killed, Ended
  <1>6. FailureKept'
    BY <1>0 DEF Types, FailureKept, ReadToTheEnd, DrainerStage, Kinds, Early,
           Between, Killed, Ended
  <1>7. AllCaptured'
    BY <1>0 DEF Types, ChildStage, DrainerStage, ReadToTheEnd, FailureKept,
           AllCaptured, Eof, Early, Between, Killed, Ended
  <1> QED
    BY <1>1, <1>2, <1>3, <1>4, <1>5, <1>6, <1>7 DEF Inv

\* A failed spawn is reported, and leaves no child.
LEMMA SpawnKeeps ==
    ASSUME Inv, Spawn
    PROVE  Inv'
  <1> USE SizesAssumption DEF Spawn, Wants, parent, Both, First, Streams
  <1>0. Types /\ PipesBounded /\ ChildStage /\ DrainerStage /\ ReadToTheEnd /\ FailureKept
        /\ AllCaptured
    BY DEF Inv
  <1>1. Types'
    BY <1>0 DEF Types, Kinds, Early, Between, Killed, Ended
  <1>2. PipesBounded'
    BY <1>0 DEF Types, PipesBounded
  <1>3. ChildStage'
    BY <1>0 DEF Types, ChildStage, DrainerStage, Early, Between, Killed, Ended
  <1>4. DrainerStage'
    BY <1>0 DEF Types, DrainerStage, ReadToTheEnd, Early, Between, Killed,
           Ended
  <1>5. ReadToTheEnd'
    BY <1>0 DEF Types, ChildStage, DrainerStage, ReadToTheEnd, Eof, Early,
           Between, Killed, Ended
  <1>6. FailureKept'
    BY <1>0 DEF Types, FailureKept, ReadToTheEnd, DrainerStage, Kinds, Early,
           Between, Killed, Ended
  <1>7. AllCaptured'
    BY <1>0 DEF Types, ChildStage, DrainerStage, ReadToTheEnd, FailureKept,
           AllCaptured, Eof, Early, Between, Killed, Ended
  <1> QED
    BY <1>1, <1>2, <1>3, <1>4, <1>5, <1>6, <1>7 DEF Inv

\* The call gives up its write ends before it reads.
LEMMA CloseWritesKeeps ==
    ASSUME Inv, CloseWrites
    PROVE  Inv'
  <1> USE SizesAssumption DEF CloseWrites, CloseWrite, parent, Both, First,
                              Streams
  <1>0. Types /\ PipesBounded /\ ChildStage /\ DrainerStage /\ ReadToTheEnd /\ FailureKept
        /\ AllCaptured
    BY DEF Inv
  <1>1. Types'
    BY <1>0 DEF Types, Kinds, Early, Between, Killed, Ended
  <1>2. PipesBounded'
    BY <1>0 DEF Types, PipesBounded
  <1>3. ChildStage'
    BY <1>0 DEF Types, ChildStage, DrainerStage, Early, Between, Killed, Ended
  <1>4. DrainerStage'
    BY <1>0 DEF Types, DrainerStage, ReadToTheEnd, Early, Between, Killed,
           Ended
  <1>5. ReadToTheEnd'
    BY <1>0 DEF Types, ChildStage, DrainerStage, ReadToTheEnd, Eof, Early,
           Between, Killed, Ended
  <1>6. FailureKept'
    BY <1>0 DEF Types, FailureKept, ReadToTheEnd, DrainerStage, Kinds, Early,
           Between, Killed, Ended
  <1>7. AllCaptured'
    BY <1>0 DEF Types, ChildStage, DrainerStage, ReadToTheEnd, FailureKept,
           AllCaptured, Eof, Early, Between, Killed, Ended
  <1> QED
    BY <1>1, <1>2, <1>3, <1>4, <1>5, <1>6, <1>7 DEF Inv

\* The drainer is started when both streams are captured.
LEMMA StartDrainerKeeps ==
    ASSUME Inv, StartDrainer
    PROVE  Inv'
  <1> USE SizesAssumption DEF StartDrainer, parent, Both, First, Streams
  <1>0. Types /\ PipesBounded /\ ChildStage /\ DrainerStage /\ ReadToTheEnd /\ FailureKept
        /\ AllCaptured
    BY DEF Inv
  <1>1. Types'
    BY <1>0 DEF Types, Kinds, Early, Between, Killed, Ended
  <1>2. PipesBounded'
    BY <1>0 DEF Types, PipesBounded
  <1>3. ChildStage'
    BY <1>0 DEF Types, ChildStage, DrainerStage, Early, Between, Killed, Ended
  <1>4. DrainerStage'
    BY <1>0 DEF Types, DrainerStage, ReadToTheEnd, Early, Between, Killed,
           Ended
  <1>5. ReadToTheEnd'
    BY <1>0 DEF Types, ChildStage, DrainerStage, ReadToTheEnd, Eof, Early,
           Between, Killed, Ended
  <1>6. FailureKept'
    BY <1>0 DEF Types, FailureKept, ReadToTheEnd, DrainerStage, Kinds, Early,
           Between, Killed, Ended
  <1>7. AllCaptured'
    BY <1>0 DEF Types, ChildStage, DrainerStage, ReadToTheEnd, FailureKept,
           AllCaptured, Eof, Early, Between, Killed, Ended
  <1> QED
    BY <1>1, <1>2, <1>3, <1>4, <1>5, <1>6, <1>7 DEF Inv

\* Without a drainer the call has failed.
LEMMA StartFailsKeeps ==
    ASSUME Inv, StartFails
    PROVE  Inv'
  <1> USE SizesAssumption DEF StartFails, parent, Both, First, Streams
  <1>0. Types /\ PipesBounded /\ ChildStage /\ DrainerStage /\ ReadToTheEnd /\ FailureKept
        /\ AllCaptured
    BY DEF Inv
  <1>1. Types'
    BY <1>0 DEF Types, Kinds, Early, Between, Killed, Ended
  <1>2. PipesBounded'
    BY <1>0 DEF Types, PipesBounded
  <1>3. ChildStage'
    BY <1>0 DEF Types, ChildStage, DrainerStage, Early, Between, Killed, Ended
  <1>4. DrainerStage'
    BY <1>0 DEF Types, DrainerStage, ReadToTheEnd, Early, Between, Killed,
           Ended
  <1>5. ReadToTheEnd'
    BY <1>0 DEF Types, ChildStage, DrainerStage, ReadToTheEnd, Eof, Early,
           Between, Killed, Ended
  <1>6. FailureKept'
    BY <1>0 DEF Types, FailureKept, ReadToTheEnd, DrainerStage, Kinds, Early,
           Between, Killed, Ended
  <1>7. AllCaptured'
    BY <1>0 DEF Types, ChildStage, DrainerStage, ReadToTheEnd, FailureKept,
           AllCaptured, Eof, Early, Between, Killed, Ended
  <1> QED
    BY <1>1, <1>2, <1>3, <1>4, <1>5, <1>6, <1>7 DEF Inv

\* The first stream is read to its end.
LEMMA ReadFirstKeeps ==
    ASSUME Inv, ReadFirst
    PROVE  Inv'
  <1> USE SizesAssumption DEF ReadFirst, ReadBytes, AfterRead, parent, Both,
                              First, Streams
  <1>0. Types /\ PipesBounded /\ ChildStage /\ DrainerStage /\ ReadToTheEnd /\ FailureKept
        /\ AllCaptured
    BY DEF Inv
  <1>1. Types'
    BY <1>0 DEF Types, Kinds, Early, Between, Killed, Ended
  <1>2. PipesBounded'
    BY <1>0 DEF Types, PipesBounded
  <1>3. ChildStage'
    BY <1>0 DEF Types, ChildStage, DrainerStage, Early, Between, Killed, Ended
  <1>4. DrainerStage'
    BY <1>0 DEF Types, DrainerStage, ReadToTheEnd, Early, Between, Killed,
           Ended
  <1>5. ReadToTheEnd'
    BY <1>0 DEF Types, ChildStage, DrainerStage, ReadToTheEnd, Eof, Early,
           Between, Killed, Ended
  <1>6. FailureKept'
    BY <1>0 DEF Types, FailureKept, ReadToTheEnd, DrainerStage, Kinds, Early,
           Between, Killed, Ended
  <1>7. AllCaptured'
    BY <1>0 DEF Types, ChildStage, DrainerStage, ReadToTheEnd, FailureKept,
           AllCaptured, Eof, Early, Between, Killed, Ended
  <1> QED
    BY <1>1, <1>2, <1>3, <1>4, <1>5, <1>6, <1>7 DEF Inv

\* A failed read of the first stream is kept for later.
LEMMA ReadFirstFailsKeeps ==
    ASSUME Inv, ReadFirstFails
    PROVE  Inv'
  <1> USE SizesAssumption DEF ReadFirstFails, ReadFailsOn, AfterRead,
                              parent, Both, First, Streams
  <1>0. Types /\ PipesBounded /\ ChildStage /\ DrainerStage /\ ReadToTheEnd /\ FailureKept
        /\ AllCaptured
    BY DEF Inv
  <1>1. Types'
    BY <1>0 DEF Types, Kinds, Early, Between, Killed, Ended
  <1>2. PipesBounded'
    BY <1>0 DEF Types, PipesBounded
  <1>3. ChildStage'
    BY <1>0 DEF Types, ChildStage, DrainerStage, Early, Between, Killed, Ended
  <1>4. DrainerStage'
    BY <1>0 DEF Types, DrainerStage, ReadToTheEnd, Early, Between, Killed,
           Ended
  <1>5. ReadToTheEnd'
    BY <1>0 DEF Types, ChildStage, DrainerStage, ReadToTheEnd, Eof, Early,
           Between, Killed, Ended
  <1>6. FailureKept'
    BY <1>0 DEF Types, FailureKept, ReadToTheEnd, DrainerStage, Kinds, Early,
           Between, Killed, Ended
  <1>7. AllCaptured'
    BY <1>0 DEF Types, ChildStage, DrainerStage, ReadToTheEnd, FailureKept,
           AllCaptured, Eof, Early, Between, Killed, Ended
  <1> QED
    BY <1>1, <1>2, <1>3, <1>4, <1>5, <1>6, <1>7 DEF Inv

\* The second stream is read to its end.
LEMMA DrainKeeps ==
    ASSUME Inv, Drain
    PROVE  Inv'
  <1> USE SizesAssumption DEF Drain, ReadBytes, parent, Both, First, Streams
  <1>0. Types /\ PipesBounded /\ ChildStage /\ DrainerStage /\ ReadToTheEnd /\ FailureKept
        /\ AllCaptured
    BY DEF Inv
  <1>1. Types'
    BY <1>0 DEF Types, Kinds, Early, Between, Killed, Ended
  <1>2. PipesBounded'
    BY <1>0 DEF Types, PipesBounded
  <1>3. ChildStage'
    BY <1>0 DEF Types, ChildStage, DrainerStage, Early, Between, Killed, Ended
  <1>4. DrainerStage'
    BY <1>0 DEF Types, DrainerStage, ReadToTheEnd, Early, Between, Killed,
           Ended
  <1>5. ReadToTheEnd'
    BY <1>0 DEF Types, ChildStage, DrainerStage, ReadToTheEnd, Eof, Early,
           Between, Killed, Ended
  <1>6. FailureKept'
    BY <1>0 DEF Types, FailureKept, ReadToTheEnd, DrainerStage, Kinds, Early,
           Between, Killed, Ended
  <1>7. AllCaptured'
    BY <1>0 DEF Types, ChildStage, DrainerStage, ReadToTheEnd, FailureKept,
           AllCaptured, Eof, Early, Between, Killed, Ended
  <1> QED
    BY <1>1, <1>2, <1>3, <1>4, <1>5, <1>6, <1>7 DEF Inv

\* A failed read of the second stream is kept for later.
LEMMA DrainFailsKeeps ==
    ASSUME Inv, DrainFails
    PROVE  Inv'
  <1> USE SizesAssumption DEF DrainFails, ReadFailsOn, parent, Both, First,
                              Streams
  <1>0. Types /\ PipesBounded /\ ChildStage /\ DrainerStage /\ ReadToTheEnd /\ FailureKept
        /\ AllCaptured
    BY DEF Inv
  <1>1. Types'
    BY <1>0 DEF Types, Kinds, Early, Between, Killed, Ended
  <1>2. PipesBounded'
    BY <1>0 DEF Types, PipesBounded
  <1>3. ChildStage'
    BY <1>0 DEF Types, ChildStage, DrainerStage, Early, Between, Killed, Ended
  <1>4. DrainerStage'
    BY <1>0 DEF Types, DrainerStage, ReadToTheEnd, Early, Between, Killed,
           Ended
  <1>5. ReadToTheEnd'
    BY <1>0 DEF Types, ChildStage, DrainerStage, ReadToTheEnd, Eof, Early,
           Between, Killed, Ended
  <1>6. FailureKept'
    BY <1>0 DEF Types, FailureKept, ReadToTheEnd, DrainerStage, Kinds, Early,
           Between, Killed, Ended
  <1>7. AllCaptured'
    BY <1>0 DEF Types, ChildStage, DrainerStage, ReadToTheEnd, FailureKept,
           AllCaptured, Eof, Early, Between, Killed, Ended
  <1> QED
    BY <1>1, <1>2, <1>3, <1>4, <1>5, <1>6, <1>7 DEF Inv

\* The drainer has ended when the call goes on.
LEMMA JoinKeeps ==
    ASSUME Inv, Join
    PROVE  Inv'
  <1> USE SizesAssumption DEF Join, Joinable, parent, Both, First, Streams
  <1>0. Types /\ PipesBounded /\ ChildStage /\ DrainerStage /\ ReadToTheEnd /\ FailureKept
        /\ AllCaptured
    BY DEF Inv
  <1>1. Types'
    BY <1>0 DEF Types, Kinds, Early, Between, Killed, Ended
  <1>2. PipesBounded'
    BY <1>0 DEF Types, PipesBounded
  <1>3. ChildStage'
    BY <1>0 DEF Types, ChildStage, DrainerStage, Early, Between, Killed, Ended
  <1>4. DrainerStage'
    BY <1>0 DEF Types, DrainerStage, ReadToTheEnd, Early, Between, Killed,
           Ended
  <1>5. ReadToTheEnd'
    BY <1>0 DEF Types, ChildStage, DrainerStage, ReadToTheEnd, Eof, Early,
           Between, Killed, Ended
  <1>6. FailureKept'
    BY <1>0 DEF Types, FailureKept, ReadToTheEnd, DrainerStage, Kinds, Early,
           Between, Killed, Ended
  <1>7. AllCaptured'
    BY <1>0 DEF Types, ChildStage, DrainerStage, ReadToTheEnd, FailureKept,
           AllCaptured, Eof, Early, Between, Killed, Ended
  <1> QED
    BY <1>1, <1>2, <1>3, <1>4, <1>5, <1>6, <1>7 DEF Inv

\* The rest of a killed child's output is thrown away.
LEMMA DrainKilledKeeps ==
    ASSUME Inv, NEW s \in Streams, NEW from \in Killed,
           NEW to \in {"drain_err", "wait"}, DrainKilled(s, from, to)
    PROVE  Inv'
  <1> USE SizesAssumption DEF DrainKilled, ReadBytes, parent, Both, First,
                              Streams
  <1>0. Types /\ PipesBounded /\ ChildStage /\ DrainerStage /\ ReadToTheEnd /\ FailureKept
        /\ AllCaptured
    BY DEF Inv
  <1>1. Types'
    BY <1>0 DEF Types, Kinds, Early, Between, Killed, Ended
  <1>2. PipesBounded'
    BY <1>0 DEF Types, PipesBounded
  <1>3. ChildStage'
    BY <1>0 DEF Types, ChildStage, DrainerStage, Early, Between, Killed, Ended
  <1>4. DrainerStage'
    BY <1>0 DEF Types, DrainerStage, ReadToTheEnd, Early, Between, Killed,
           Ended
  <1>5. ReadToTheEnd'
    BY <1>0 DEF Types, ChildStage, DrainerStage, ReadToTheEnd, Eof, Early,
           Between, Killed, Ended
  <1>6. FailureKept'
    BY <1>0 DEF Types, FailureKept, ReadToTheEnd, DrainerStage, Kinds, Early,
           Between, Killed, Ended
  <1>7. AllCaptured'
    BY <1>0 DEF Types, ChildStage, DrainerStage, ReadToTheEnd, FailureKept,
           AllCaptured, Eof, Early, Between, Killed, Ended
  <1> QED
    BY <1>1, <1>2, <1>3, <1>4, <1>5, <1>6, <1>7 DEF Inv

\* Also when it cannot be read.
LEMMA DrainKilledFailsKeeps ==
    ASSUME Inv, NEW from \in Killed, NEW to \in {"drain_err", "wait"},
           DrainKilledFails(from, to)
    PROVE  Inv'
  <1> USE SizesAssumption DEF DrainKilledFails, parent, Both, First, Streams
  <1>0. Types /\ PipesBounded /\ ChildStage /\ DrainerStage /\ ReadToTheEnd /\ FailureKept
        /\ AllCaptured
    BY DEF Inv
  <1>1. Types'
    BY <1>0 DEF Types, Kinds, Early, Between, Killed, Ended
  <1>2. PipesBounded'
    BY <1>0 DEF Types, PipesBounded
  <1>3. ChildStage'
    BY <1>0 DEF Types, ChildStage, DrainerStage, Early, Between, Killed, Ended
  <1>4. DrainerStage'
    BY <1>0 DEF Types, DrainerStage, ReadToTheEnd, Early, Between, Killed,
           Ended
  <1>5. ReadToTheEnd'
    BY <1>0 DEF Types, ChildStage, DrainerStage, ReadToTheEnd, Eof, Early,
           Between, Killed, Ended
  <1>6. FailureKept'
    BY <1>0 DEF Types, FailureKept, ReadToTheEnd, DrainerStage, Kinds, Early,
           Between, Killed, Ended
  <1>7. AllCaptured'
    BY <1>0 DEF Types, ChildStage, DrainerStage, ReadToTheEnd, FailureKept,
           AllCaptured, Eof, Early, Between, Killed, Ended
  <1> QED
    BY <1>1, <1>2, <1>3, <1>4, <1>5, <1>6, <1>7 DEF Inv

\* The result tells whether everything was read.
LEMMA WaitKeeps ==
    ASSUME Inv, Wait
    PROVE  Inv'
  <1> USE SizesAssumption DEF Wait, WaitFor, Errors, parent, Both, First,
                              Streams
  <1>0. Types /\ PipesBounded /\ ChildStage /\ DrainerStage /\ ReadToTheEnd /\ FailureKept
        /\ AllCaptured
    BY DEF Inv
  <1>1. Types'
    BY <1>0 DEF Types, Kinds, Early, Between, Killed, Ended
  <1>2. PipesBounded'
    BY <1>0 DEF Types, PipesBounded
  <1>3. ChildStage'
    BY <1>0 DEF Types, ChildStage, DrainerStage, Early, Between, Killed, Ended
  <1>4. DrainerStage'
    BY <1>0 DEF Types, DrainerStage, ReadToTheEnd, Early, Between, Killed,
           Ended
  <1>5. ReadToTheEnd'
    BY <1>0 DEF Types, ChildStage, DrainerStage, ReadToTheEnd, Eof, Early,
           Between, Killed, Ended
  <1>6. FailureKept'
    BY <1>0 DEF Types, FailureKept, ReadToTheEnd, DrainerStage, Kinds, Early,
           Between, Killed, Ended
  <1>7. AllCaptured'
    <2> SUFFICES ASSUME result' = "true", NEW s \in streams
                 PROVE  Eof(s)
      BY <1>0 DEF AllCaptured, Types, Eof
    <2>1. \A t \in Streams : io_ok[t]
      BY <1>0 DEF Types
    <2>2. CASE s = First
      BY <2>1, <2>2, <1>0 DEF Types, ReadToTheEnd
    <2>3. CASE s # First
      <3>1. s = "err" /\ Both
        BY <2>3, <1>0 DEF Types
      <3>2. drainer = "ended"
        BY <3>1, <2>1, <1>0 DEF Types, DrainerStage
      <3> QED
        BY <3>1, <3>2, <2>1, <1>0 DEF Types, ReadToTheEnd, Between
    <2> QED
      BY <2>2, <2>3
  <1> QED
    BY <1>1, <1>2, <1>3, <1>4, <1>5, <1>6, <1>7 DEF Inv

\* The call leaves no pipe end open.
LEMMA CleanupKeeps ==
    ASSUME Inv, Cleanup
    PROVE  Inv'
  <1> USE SizesAssumption DEF Cleanup, parent, Both, First, Streams
  <1>0. Types /\ PipesBounded /\ ChildStage /\ DrainerStage /\ ReadToTheEnd /\ FailureKept
        /\ AllCaptured
    BY DEF Inv
  <1>1. Types'
    BY <1>0 DEF Types, Kinds, Early, Between, Killed, Ended
  <1>2. PipesBounded'
    BY <1>0 DEF Types, PipesBounded
  <1>3. ChildStage'
    BY <1>0 DEF Types, ChildStage, DrainerStage, Early, Between, Killed, Ended
  <1>4. DrainerStage'
    BY <1>0 DEF Types, DrainerStage, ReadToTheEnd, Early, Between, Killed,
           Ended
  <1>5. ReadToTheEnd'
    BY <1>0 DEF Types, ChildStage, DrainerStage, ReadToTheEnd, Eof, Early,
           Between, Killed, Ended
  <1>6. FailureKept'
    BY <1>0 DEF Types, FailureKept, ReadToTheEnd, DrainerStage, Kinds, Early,
           Between, Killed, Ended
  <1>7. AllCaptured'
    BY <1>0 DEF Types, ChildStage, DrainerStage, ReadToTheEnd, FailureKept,
           AllCaptured, Eof, Early, Between, Killed, Ended
  <1> QED
    BY <1>1, <1>2, <1>3, <1>4, <1>5, <1>6, <1>7 DEF Inv

-----------------------------------------------------------------------------
(* Every step.                                                             *)

LEMMA InvStep == Inv /\ [Next]_vars => Inv'
  <1> SUFFICES ASSUME Inv, [Next]_vars PROVE Inv'
    OBVIOUS
  <1>1. CASE UNCHANGED vars
    BY <1>1 DEF vars, parent, Inv, Types, PipesBounded, ChildStage, DrainerStage,
                ReadToTheEnd, FailureKept, AllCaptured, Both, First, Eof
  <1>2. CASE ParentStep
    BY <1>2, SetupKeeps, SpawnKeeps, CloseWritesKeeps, StartDrainerKeeps, StartFailsKeeps,
       ReadFirstKeeps, JoinKeeps, DrainKilledKeeps, WaitKeeps, CleanupKeeps
       DEF ParentStep, Streams, Killed
  <1>3. CASE ChildStep \/ HelperExits
    BY <1>3, ChildWritesKeeps, ChildExitsKeeps, HelperExitsKeeps DEF ChildStep
  <1>4. CASE \/ Drain \/ ReadFirstFails \/ DrainFails
             \/ DrainKilledFails("drain_out", "drain_err")
             \/ DrainKilledFails("drain_err", "wait")
    BY <1>4, DrainKeeps, ReadFirstFailsKeeps, DrainFailsKeeps, DrainKilledFailsKeeps
       DEF Killed
  <1> QED
    BY <1>1, <1>2, <1>3, <1>4 DEF Next

\* The invariant holds in every reachable state.
THEOREM Invariance == Spec => []Inv
  BY InvInit, InvStep, PTL DEF Spec

\* Every variable keeps its type, and a pipe never holds more than its size.
THEOREM TypeCorrect == Spec => []TypeOK
  <1>1. Inv => TypeOK
    BY DEF Inv, Types, PipesBounded, TypeOK
  <1> QED
    BY <1>1, Invariance, PTL

\* ucb_process_capture: when it succeeds, everything that was written to the pipes is in
\* the buffers, and whenever it returns the child has been reaped and the drainer,
\* which works on the call's own stack, has ended.
THEOREM CaptureCorrect == Spec => []CaptureSound
  <1>1. Inv => AllCaptured
    BY DEF Inv
  <1>2. Inv => ChildReaped
    BY DEF Inv, ChildStage, ChildReaped, Ended
  <1>3. Inv => DrainerJoined
    BY DEF Inv, DrainerStage, DrainerJoined
  <1> QED
    BY <1>1, <1>2, <1>3, Invariance, PTL DEF CaptureSound

\* ucb_process_capture returns FALSE exactly when it leaves an error in *perr, in
\* whatever order its two reads and its wait fail.
THEOREM FailuresReported == Spec => []FailureReported
  <1>1. Inv => FailureReported
    BY DEF Inv, FailureKept, FailureReported, Ended
  <1> QED
    BY <1>1, Invariance, PTL
=============================================================================
