--------------------------- MODULE PipelineProofs ---------------------------
(***************************************************************************)
(* The calls of the simulation are remote calls (RemoteCall), for any      *)
(* number of them and whatever may fail: no reply is lost, repeated or     *)
(* taken for the answer to another call as long as both sides alternate,   *)
(* and only an exception before on_term has a simulation leave its server  *)
(* behind (julia_client.py, julia_server.py, julia/server.jl).  The same   *)
(* holds of the simulation the pipeline makes (run_gridlabd_main.py),      *)
(* whose server always has the baseline files of that pipeline, and whose  *)
(* time series has rows of one time each (data_post_process.py).           *)
(***************************************************************************)
EXTENDS Pipeline, SequenceTheorems, SumTheorems

\* Nothing is under way.
Quiet == toServer = <<>> /\ toClient = <<>> /\ server # "working"

\* The one message under way carries the number of the call that waits, and is
\* in one place: sent, being worked on, answered, or lost with the server.
InFlight ==
  \/ server # "working" /\ toClient = <<>> /\ \E m \in Message : toServer = <<m>> /\ m.n = sent
  \/ server = "working" /\ toServer = <<>> /\ toClient = <<>> /\ job.n = sent
  \/ server = "listening" /\ toServer = <<>> /\ \E m \in Message : toClient = <<m>> /\ m.n = sent
  \/ server = "dead" /\ toServer = <<>> /\ toClient = <<>>

\* The inductive invariant: what is under way and what the server does, by
\* what the simulation is doing.
LinkInv ==
  /\ TypeOK
  /\ sent <= MaxCalls + 1
  /\ pc = "starting" => Quiet /\ sent = 0 /\ received = 0 /\ server = "none"
  /\ pc = "waiting" => InFlight /\ sent = received + 1 /\ Absorption
  /\ pc \in {"running", "hung", "over", "failed"} => Quiet /\ sent = received
  /\ pc = "running" /\ Absorption => handle
  /\ pc \in {"running", "hung"} /\ ~Absorption => server \in {"none", "dead"}
  /\ pc = "hung" => ~Absorption
  /\ ServerLeftByException

\* The invariant holds before the server is started.
LEMMA InitLink == Init => LinkInv
<1>1. NoJob \in Message
  BY LinkAssumption DEF NoJob, Message, Ops
<1>2. <<>> \in Seq(Message)
  OBVIOUS
<1> SUFFICES ASSUME Init PROVE LinkInv
  OBVIOUS
<1>3. TypeOK
  BY <1>1, <1>2 DEF Init, TypeOK
<1>4. sent <= MaxCalls + 1
  BY LinkAssumption DEF Init
<1>5. Quiet /\ sent = 0 /\ received = 0 /\ server = "none" /\ pc = "starting"
  BY DEF Init, Quiet
<1> QED
  BY <1>3, <1>4, <1>5 DEF LinkInv, ServerLeftByException

\* Sending from a state in which nothing is under way.
LEMMA SendOne ==
  ASSUME TypeOK, NEW op \in Ops, toServer = <<>>, sent <= MaxCalls, Send(op)
  PROVE  /\ [op |-> op, n |-> sent + 1] \in Message
         /\ toServer' = <<[op |-> op, n |-> sent + 1]>>
         /\ toServer' \in Seq(Message)
         /\ sent' \in Nat /\ sent' <= MaxCalls + 1
<1>1. [op |-> op, n |-> sent + 1] \in Message
  BY LinkAssumption DEF TypeOK, Message
<1> QED
  BY <1>1, LinkAssumption DEF TypeOK, Send

\* Every step of the client keeps the invariant.
LEMMA ClientKeepsInv == LinkInv /\ (ClientNext \/ Over \/ Abandoned) => LinkInv'
<1> SUFFICES ASSUME LinkInv, ClientNext \/ Over \/ Abandoned PROVE LinkInv'
  OBVIOUS
<1> USE DEF LinkInv, ServerLeftByException
<1>1. CASE Start
  <2>1. "ping" \in Ops /\ Send("ping") /\ toServer = <<>> /\ sent <= MaxCalls
    BY <1>1, LinkAssumption DEF Start, Ops, Quiet
  <2>2. /\ [op |-> "ping", n |-> sent + 1] \in Message
        /\ toServer' = <<[op |-> "ping", n |-> sent + 1]>>
        /\ toServer' \in Seq(Message)
        /\ sent' \in Nat /\ sent' <= MaxCalls + 1
    BY <2>1, SendOne
  <2>3. InFlight'
    BY <1>1, <2>2 DEF Start, Send, InFlight, Quiet
  <2> QED
    BY <1>1, <2>2, <2>3 DEF Start, Send, TypeOK
<1>2. CASE StartFails
  BY <1>2 DEF StartFails, TypeOK, Quiet
<1>3. CASE Receive
  <2>1. PICK m \in Message : toClient = <<m>> /\ toServer = <<>> /\ server # "working"
    BY <1>3 DEF Receive, InFlight
  <2>2. toClient' = <<>>
    BY <1>3, <2>1 DEF Receive
  <2> QED
    BY <1>3, <2>1, <2>2 DEF Receive, TypeOK, Quiet
<1>4. ASSUME NEW op \in {"islanding", "management"}, CallServer(op) PROVE LinkInv'
  <2>1. op \in Ops /\ Send(op) /\ toServer = <<>> /\ sent <= MaxCalls
    BY <1>4 DEF CallServer, Ops, Quiet
  <2>2. /\ [op |-> op, n |-> sent + 1] \in Message
        /\ toServer' = <<[op |-> op, n |-> sent + 1]>>
        /\ toServer' \in Seq(Message)
        /\ sent' \in Nat /\ sent' <= MaxCalls + 1
    BY <2>1, SendOne
  <2>3. InFlight'
    BY <1>4, <2>2 DEF CallServer, Send, InFlight, Quiet
  <2> QED
    BY <1>4, <2>2, <2>3 DEF CallServer, Send, TypeOK
<1>5. CASE OnTerm \/ CallbackRaises
  BY <1>5 DEF OnTerm, CallbackRaises, Stop, TypeOK, Quiet
<1>6. CASE Over \/ Abandoned
  BY <1>6 DEF Over, Abandoned, vars, TypeOK, Quiet, InFlight
<1>7. CASE NoLoadControl \/ InitRaises \/ SearchHangs
  BY <1>7 DEF NoLoadControl, InitRaises, SearchHangs, TypeOK, Quiet
<1> QED
  BY <1>1, <1>2, <1>3, <1>4, <1>5, <1>6, <1>7 DEF ClientNext, OnInit

\* Every step of the server keeps the invariant.
LEMMA ServerKeepsInv == LinkInv /\ ServerNext => LinkInv'
<1> SUFFICES ASSUME LinkInv, ServerNext PROVE LinkInv'
  OBVIOUS
<1> USE DEF LinkInv, ServerLeftByException
<1>1. CASE Listen \/ LoadFails
  BY <1>1 DEF Listen, LoadFails, TypeOK, Quiet, InFlight
<1>2. CASE TakeMessage
  <2>1. pc = "waiting"
    BY <1>2 DEF TakeMessage, TypeOK, Quiet
  <2>2. PICK m \in Message : toServer = <<m>> /\ m.n = sent /\ toClient = <<>>
    BY <1>2, <2>1 DEF TakeMessage, InFlight
  <2>3. toServer' = <<>> /\ job' = m
    BY <1>2, <2>2 DEF TakeMessage
  <2> QED
    BY <1>2, <2>1, <2>2, <2>3 DEF TakeMessage, TypeOK, InFlight
<1>3. CASE Reply
  <2>1. pc = "waiting"
    BY <1>3 DEF Reply, TypeOK, Quiet
  <2>2. toServer = <<>> /\ toClient = <<>> /\ job.n = sent /\ job \in Message
    BY <1>3, <2>1 DEF Reply, InFlight, TypeOK
  <2>3. toClient' = <<job>> /\ toClient' \in Seq(Message)
    BY <1>3, <2>2 DEF Reply
  <2>4. InFlight'
    BY <1>3, <2>2, <2>3 DEF Reply, InFlight
  <2> QED
    BY <1>3, <2>1, <2>3, <2>4 DEF Reply, TypeOK
<1>4. CASE OperationFails
  BY <1>4 DEF OperationFails, TypeOK, Quiet, InFlight
<1> QED
  BY <1>1, <1>2, <1>3, <1>4 DEF ServerNext

\* And every step of both.
LEMMA NextKeepsInv == LinkInv /\ [Next]_vars => LinkInv'
<1>1. LinkInv /\ UNCHANGED vars => LinkInv'
  BY DEF vars, LinkInv, TypeOK, Quiet, InFlight, ServerLeftByException
<1> QED
  BY <1>1, ClientKeepsInv, ServerKeepsInv DEF Next

\* The invariant holds in every state.
LEMMA LinkInvariance == Spec => []LinkInv
BY InitLink, NextKeepsInv, PTL DEF Spec

-----------------------------------------------------------------------------
\* The variables have the values the code gives them (the process as held, the
\* messages of on_init and on_commit).
THEOREM LinkTypes == Spec => []TypeOK
<1>1. LinkInv => TypeOK
  BY DEF LinkInv
<1> QED
  BY <1>1, LinkInvariance, PTL

\* A reply is only ever under way to a client that waits for it, and it answers
\* the message that client sent last.
THEOREM RepliesAreAnswers == Spec => []ReplyAnswersCall
<1>1. LinkInv => ReplyAnswersCall
  BY DEF LinkInv, TypeOK, Quiet, InFlight, ReplyAnswersCall
<1> QED
  BY <1>1, LinkInvariance, PTL

\* A simulation that has ended leaves its server running only if an exception ended
\* it before on_term: not when start() failed, and not when it reached its end.
THEOREM ServerStopped == Spec => []ServerLeftByException
<1>1. LinkInv => ServerLeftByException
  BY DEF LinkInv
<1> QED
  BY <1>1, LinkInvariance, PTL

\* on_init turns Absorption off unless it has a server it can stop.
THEOREM ServerBehindAbsorption == Spec => []AbsorptionHasServer
<1>1. LinkInv => AbsorptionHasServer
  BY DEF LinkInv, AbsorptionHasServer
<1> QED
  BY <1>1, LinkInvariance, PTL

\* A step sends a call, answers the call under way once, returns that answer, ends
\* the server or is none of the abstract specification's business.
LEMMA StepsImplementCalls == LinkInv /\ [Next]_vars => [Calls!Next]_(Calls!vars)
<1> SUFFICES ASSUME LinkInv, [Next]_vars PROVE [Calls!Next]_(Calls!vars)
  OBVIOUS
<1> USE DEF Calls!Next, Calls!vars, Calls!Call, Calls!Execute, Calls!Return, Calls!Break
<1>1. CASE Start \/ \E op \in {"islanding", "management"} : CallServer(op)
  <2>1. toClient' = toClient /\ toClient = <<>> /\ sent' = sent + 1 /\ received' = received /\ sent = received
    BY <1>1 DEF Start, CallServer, Send, LinkInv, Quiet
  <2>2. (server = "dead")' = (server = "dead")
    BY <1>1 DEF Start, CallServer, LinkInv
  <2> QED
    BY <2>1, <2>2 DEF LinkInv, TypeOK
<1>2. CASE Receive
  <2>1. PICK m \in Message : toClient = <<m>>
    BY <1>2 DEF Receive, LinkInv, InFlight
  <2>2. toClient' = <<>> /\ sent' = sent /\ received' = received + 1 /\ server' = server
    BY <1>2, <2>1 DEF Receive
  <2>3. Len(toClient) = 1 /\ Len(toClient') = 0
    BY <2>1, <2>2
  <2> QED
    BY <2>2, <2>3 DEF LinkInv, TypeOK
<1>3. CASE Reply
  <2>1. pc = "waiting" /\ toClient = <<>> /\ sent = received + 1
    BY <1>3 DEF Reply, LinkInv, TypeOK, Quiet, InFlight
  <2>2. toClient' = <<job>> /\ sent' = sent /\ received' = received /\ server = "working" /\ server' = "listening"
    BY <1>3, <2>1 DEF Reply
  <2>3. Len(toClient) = 0 /\ Len(toClient') = 1
    BY <2>1, <2>2
  <2> QED
    BY <2>1, <2>2, <2>3 DEF LinkInv, TypeOK
<1>4. CASE StartFails \/ OnTerm \/ CallbackRaises \/ LoadFails \/ OperationFails
  BY <1>4 DEF StartFails, OnTerm, CallbackRaises, Stop, LoadFails, OperationFails
<1>5. CASE NoLoadControl \/ InitRaises \/ SearchHangs \/ Listen \/ TakeMessage \/ Over
           \/ Abandoned \/ UNCHANGED vars
  BY <1>5 DEF NoLoadControl, InitRaises, SearchHangs, Listen, TakeMessage, Over, Abandoned, vars
<1> QED
  BY <1>1, <1>2, <1>3, <1>4, <1>5 DEF Next, ServerNext, ClientNext, OnInit

\* The calls begin with none sent.
LEMMA InitImplementsCalls == Init => Calls!Init
BY DEF Init, Calls!Init

\* The two processes and their queues implement the remote calls, whatever fails.
THEOREM LinkImplementsCalls == Spec => CallsAreSafe
BY InitImplementsCalls, StepsImplementCalls, LinkInvariance, PTL DEF Spec, CallsAreSafe, Calls!Safe

\* The answer to the call that waits is one step nearer with each step, or the
\* server has just died.
LEMMA StepsBringAnswer ==
  LinkInv /\ [Next]_vars =>
    [pc = "waiting" => \/ pc' = "running"
                       \/ AnswerDistance' < AnswerDistance
                       \/ server # "dead" /\ server' = "dead"]_vars
<1> SUFFICES ASSUME LinkInv, Next, vars' # vars, pc = "waiting"
             PROVE  \/ pc' = "running"
                    \/ AnswerDistance' < AnswerDistance
                    \/ server # "dead" /\ server' = "dead"
  OBVIOUS
<1>1. CASE Listen
  <2>1. toClient = <<>>
    BY <1>1 DEF Listen, LinkInv, InFlight
  <2> QED
    BY <1>1, <2>1 DEF Listen, AnswerDistance
<1>2. CASE TakeMessage
  <2>1. toClient = <<>>
    BY <1>2 DEF TakeMessage, LinkInv, InFlight
  <2> QED
    BY <1>2, <2>1 DEF TakeMessage, AnswerDistance
<1>3. CASE Reply
  <2>1. toClient = <<>> /\ job \in Message
    BY <1>3 DEF Reply, LinkInv, InFlight, TypeOK
  <2>2. toClient' = <<job>>
    BY <1>3, <2>1 DEF Reply
  <2>3. toClient' # <<>>
    BY <2>2
  <2> QED
    BY <1>3, <2>1, <2>3 DEF Reply, AnswerDistance
<1>4. CASE Receive \/ LoadFails \/ OperationFails
  BY <1>4 DEF Receive, LoadFails, OperationFails
<1> QED
  BY <1>1, <1>2, <1>3, <1>4
     DEF Next, ServerNext, ClientNext, OnInit, NoLoadControl, InitRaises, Start, StartFails,
         CallServer, OnTerm, CallbackRaises, SearchHangs, Over, Abandoned

\* A call takes four steps of the two processes at most to be answered, unless the
\* server dies on the way: nothing else sets it back.
THEOREM AnswersComeNearer == Spec => AnswerComesNearer
BY StepsBringAnswer, LinkInvariance, PTL DEF Spec, AnswerComesNearer

-----------------------------------------------------------------------------
(* The pipeline.                                                           *)

\* The inductive invariant of the script: the server and the simulation it belongs
\* to exist in one stage, and the baseline files are written by then.
StageInv ==
  /\ stage \in Stages
  /\ stage \in {"inputs", "baseline", "solar", "loads", "compile", "convert"}
       => pc = "starting" /\ server = "none"
  /\ stage = "loads" => baselines = {"Ps_baseline"}
  /\ stage \in {"compile", "convert", "simulation"} => baselines = BaselineFiles
  /\ stage \in {"inputs", "baseline", "solar"} => baselines = {}
  /\ stage \in {"post", "deliver", "done"} => server \in {"none", "dead"}
  /\ ServerHasBaseline

\* Every step of the pipeline is a step of the link or leaves it alone.
LEMMA PNextIsNext == [PNext]_pvars => [Next]_vars
BY DEF PNext, pvars, CheckInputs, RunBaseline, WritePs, WriteLoads, Compile, Convert, Step,
       Simulate, EndSimulation, PostProcess, Deliver, ScriptOver

\* The script's steps keep its invariant.
LEMMA PNextKeepsStage == LinkInv /\ StageInv /\ [PNext]_pvars => StageInv'
<1> SUFFICES ASSUME LinkInv, StageInv, [PNext]_pvars PROVE StageInv'
  OBVIOUS
<1> USE DEF StageInv, Stages, BaselineFiles, ServerHasBaseline
<1>1. CASE CheckInputs \/ RunBaseline \/ Compile \/ Convert
  BY <1>1 DEF CheckInputs, RunBaseline, Compile, Convert, Step, vars
<1>2. CASE WritePs \/ WriteLoads
  BY <1>2 DEF WritePs, WriteLoads, Step, vars
<1>3. CASE Simulate
  BY <1>3 DEF Simulate
<1>4. CASE EndSimulation
  BY <1>4 DEF EndSimulation, Step, vars, LinkInv, TypeOK, ServerLeftByException
<1>5. ASSUME NEW f \in Recordings, PostProcess(f) PROVE StageInv'
  BY <1>5 DEF PostProcess, vars
<1>6. CASE Deliver
  BY <1>6 DEF Deliver, Step, vars
<1>7. CASE ScriptOver \/ UNCHANGED pvars
  BY <1>7 DEF ScriptOver, pvars, vars
<1> QED
  BY <1>1, <1>2, <1>3, <1>4, <1>5, <1>6, <1>7 DEF PNext

\* Both invariants hold in every state of the pipeline.
LEMMA PipelineInvariance == PSpec => [](LinkInv /\ StageInv)
<1>1. PInit => LinkInv /\ StageInv
  <2> SUFFICES ASSUME PInit PROVE LinkInv /\ StageInv
    OBVIOUS
  <2>1. LinkInv
    BY InitLink DEF PInit
  <2>2. StageInv
    BY DEF PInit, Init, StageInv, Stages, ServerHasBaseline
  <2> QED
    BY <2>1, <2>2
<1>2. LinkInv /\ StageInv /\ [PNext]_pvars => (LinkInv /\ StageInv)'
  BY PNextIsNext, NextKeepsInv, PNextKeepsStage
<1> QED
  BY <1>1, <1>2, PTL DEF PSpec

\* What the link promises holds of the simulation of the pipeline.
THEOREM PipelineLinkSound ==
  PSpec => [](TypeOK /\ AbsorptionHasServer /\ ReplyAnswersCall /\ ServerLeftByException)
<1>1. LinkInv => TypeOK /\ AbsorptionHasServer /\ ServerLeftByException
  BY DEF LinkInv, AbsorptionHasServer
<1>2. LinkInv => ReplyAnswersCall
  BY DEF LinkInv, TypeOK, Quiet, InFlight, ReplyAnswersCall
<1> QED
  BY <1>1, <1>2, PipelineInvariance, PTL

\* The simulation of the pipeline calls its server as JuliaLink's does, from the
\* inputs to the end of the script.
THEOREM PipelineImplementsCalls == PSpec => CallsAreSafe
<1>1. PInit => Calls!Init
  BY InitImplementsCalls DEF PInit
<1>2. LinkInv /\ [PNext]_pvars => [Calls!Next]_(Calls!vars)
  BY PNextIsNext, StepsImplementCalls
<1> QED
  BY <1>1, <1>2, PipelineInvariance, PTL DEF PSpec, CallsAreSafe, Calls!Safe

\* on_init looks at one baseline file; the order in which the driver's steps write
\* them, and set -e, vouch for both when the server is started.
THEOREM BaselineBehindServer == PSpec => []ServerHasBaseline
<1>1. StageInv => ServerHasBaseline
  BY DEF StageInv
<1> QED
  BY <1>1, PipelineInvariance, PTL

\* So do the calls of the pipeline's simulation.
THEOREM PipelineAnswersComeNearer == PSpec => AnswerComesNearer
<1>1. LinkInv /\ [PNext]_pvars =>
        [pc = "waiting" => \/ pc' = "running"
                           \/ AnswerDistance' < AnswerDistance
                           \/ server # "dead" /\ server' = "dead"]_vars
  BY PNextIsNext, StepsBringAnswer
<1> QED
  BY <1>1, PipelineInvariance, PTL DEF PSpec, AnswerComesNearer

-----------------------------------------------------------------------------
(* The rows of the time series.                                            *)

\* A set of numbers has a least element.
LEMMA LeastNumber ==
  ASSUME NEW T, T \subseteq Nat, T # {}
  PROVE  \E n \in T : \A k \in T : n <= k
<1>1. PICK top \in T : TRUE
  OBVIOUS
<1> DEFINE Below == {1..n : n \in {k \in T : k <= top}}
<1>2. 1..top \in Below /\ Below \subseteq SUBSET (1..top)
  <2>1. top \in {k \in T : k <= top}
    BY <1>1
  <2>2. ASSUME NEW n \in T, n <= top PROVE 1..n \subseteq 1..top
    BY <1>1, <2>2
  <2> QED
    BY <2>1, <2>2
<1>3. PICK s \in Below : \A t \in SUBSET s : t \in Below => t = s
  <2> DEFINE all == 1..top
  <2>1. IsFiniteSet(all)
    BY <1>1, FS_Interval
  <2>2. Below \subseteq SUBSET all /\ Below # {}
    BY <1>2
  <2> HIDE DEF Below, all
  <2> QED
    BY <2>1, <2>2, LeastSubset
<1>4. PICK n \in T : n <= top /\ s = 1..n
  BY <1>3
<1>5. ASSUME NEW k \in T, k < n PROVE FALSE
  <2>1. k <= top /\ 1..k \subseteq 1..n
    BY <1>1, <1>4, <1>5
  <2>2. 1..k \in Below /\ 1..k \in SUBSET s
    BY <1>4, <2>1
  <2>3. n \in 1..n /\ ~ (n \in 1..k)
    BY <1>4, <1>5
  <2> QED
    BY <1>3, <1>4, <2>2, <2>3
<1> HIDE DEF Below
<1>6. ASSUME NEW k \in T PROVE n <= k
  <2>1. ~ (k < n) /\ k \in Nat /\ n \in Nat
    BY <1>4, <1>5
  <2> QED
    BY <2>1
<1> QED
  BY <1>4, <1>6

\* What the loop over baseline.csv has kept of its first k rows, for all of the
\* first n.
Loads(load, g, b, n) ==
  load = [k \in 0..n |->
            IF k = 0 THEN <<>>
            ELSE IF b[k] \in ToSet(g) THEN Append(load[k - 1], b[k])
            ELSE load[k - 1]]

\* The recursion is well defined.
LEMMA LoadsExist ==
  ASSUME NEW g, NEW b, NEW n \in Nat
  PROVE  \E load : Loads(load, g, b, n)
<1> DEFINE Bad == {m \in Nat : ~ \E load : Loads(load, g, b, m)}
<1> SUFFICES ASSUME Bad # {} PROVE FALSE
  OBVIOUS
<1>1. PICK m \in Bad : \A k \in Bad : m <= k
  <2> HIDE DEF Bad
  <2>1. Bad \subseteq Nat
    BY DEF Bad
  <2> QED
    BY <2>1, LeastNumber
<1>2. CASE m = 0
  <2>1. Loads([k \in 0..0 |-> <<>>], g, b, 0)
    BY DEF Loads
  <2> QED
    BY <1>1, <1>2, <2>1
<1>3. CASE m # 0
  <2>1. PICK load : Loads(load, g, b, m - 1)
    BY <1>1, <1>3
  <2> DEFINE last == IF b[m] \in ToSet(g) THEN Append(load[m - 1], b[m]) ELSE load[m - 1]
             more == [k \in 0..m |-> IF k = m THEN last ELSE load[k]]
  <2>2. Loads(more, g, b, m)
    <3> SUFFICES ASSUME NEW k \in 0..m
                 PROVE  more[k] = IF k = 0 THEN <<>>
                                  ELSE IF b[k] \in ToSet(g) THEN Append(more[k - 1], b[k])
                                  ELSE more[k - 1]
      BY DEF Loads
    <3>1. CASE k = m
      BY <1>1, <1>3, <3>1
    <3>2. CASE k # m
      <4>1. k \in 0..(m - 1) /\ more[k] = load[k]
        BY <1>1, <3>2
      <4>2. k # 0 => more[k - 1] = load[k - 1]
        BY <1>1, <3>2
      <4> QED
        BY <2>1, <4>1, <4>2 DEF Loads
    <3> QED
      BY <3>1, <3>2
  <2> QED
    BY <1>1, <2>2
<1> QED
  BY <1>2, <1>3

\* The rows that are kept are in the order of time, and they are those of times in the
\* time series.
LEMMA KeptRows ==
  ASSUME NEW g, NEW b, Recorded(b)
  PROVE  /\ Recorded(BaselineLoad(g, b))
         /\ \A i \in 1..Len(BaselineLoad(g, b)) : BaselineLoad(g, b)[i] \in ToSet(g)
         /\ ToSet(b) \cap ToSet(g) \subseteq ToSet(BaselineLoad(g, b))
<1> DEFINE n == Len(b)
           load == CHOOSE load : Loads(load, g, b, n)
           Kept(k) == /\ Recorded(load[k])
                      /\ \A i \in 1..Len(load[k]) : load[k][i] \in ToSet(g)
                      /\ \A i \in 1..Len(load[k]) : \E j \in 1..k : load[k][i] = b[j]
                      /\ \A j \in 1..k : b[j] \in ToSet(g) =>
                           \E i \in 1..Len(load[k]) : load[k][i] = b[j]
<1>1. n \in Nat
  BY DEF Recorded
<1>2. Loads(load, g, b, n)
  BY <1>1, LoadsExist
<1>3. BaselineLoad(g, b) = load[n]
  BY DEF BaselineLoad, Loads
<1> HIDE DEF load
<1>4. ASSUME NEW k \in 0..n, k # 0 => Kept(k - 1) PROVE Kept(k)
  <2>1. CASE k = 0
    <3>1. load[k] = <<>>
      BY <1>1, <1>2, <2>1 DEF Loads
    <3> QED
      BY <2>1, <3>1 DEF Recorded
  <2>2. CASE k # 0 /\ ~ (b[k] \in ToSet(g))
    <3>1. load[k] = load[k - 1]
      BY <1>1, <1>2, <2>2 DEF Loads
    <3>2. \A j \in 1..k : j = k \/ j \in 1..(k - 1)
      BY <1>1
    <3>3. \A j \in 1..(k - 1) : j \in 1..k
      BY <1>1
    <3> QED
      BY <1>4, <2>2, <3>1, <3>2, <3>3
  <2>3. CASE k # 0 /\ b[k] \in ToSet(g)
    <3> DEFINE old == load[k - 1]
    <3>1. load[k] = Append(old, b[k])
      BY <1>1, <1>2, <2>3 DEF Loads
    <3>2. old \in Seq(Nat) /\ b[k] \in Nat
      BY <1>1, <1>4, <2>3 DEF Recorded
    <3>3. /\ load[k] \in Seq(Nat)
          /\ Len(load[k]) = Len(old) + 1
          /\ \A i \in 1..Len(old) : load[k][i] = old[i]
          /\ load[k][Len(old) + 1] = b[k]
      BY <3>1, <3>2, AppendProperties
    <3>4. ASSUME NEW i \in 1..Len(old) PROVE old[i] < b[k] /\ old[i] \in ToSet(g)
      <4>1. PICK j \in 1..(k - 1) : old[i] = b[j]
        BY <1>4, <2>3
      <4>2. j \in 1..n /\ k \in 1..n /\ j < k
        BY <1>1, <2>3
      <4>3. b[j] < b[k]
        BY <4>2 DEF Recorded
      <4> QED
        BY <1>4, <2>3, <4>1, <4>3
    <3>5. \A i \in 1..Len(old) : \E j \in 1..k : old[i] = b[j]
      BY <1>1, <1>4, <2>3 DEF Recorded
    <3>6. \A i, j \in 1..Len(old) : i < j => old[i] < old[j]
      BY <1>4, <2>3 DEF Recorded
    <3>7. Len(old) \in Nat
      BY <3>2
    <3> HIDE DEF old
    <3>8. \A i \in 1..Len(load[k]) : i = Len(old) + 1 \/ i \in 1..Len(old)
      BY <3>3, <3>7
    <3>9. Recorded(load[k])
      <4> SUFFICES ASSUME NEW i \in 1..Len(load[k]), NEW j \in 1..Len(load[k]), i < j
                   PROVE  load[k][i] < load[k][j]
        BY <3>3 DEF Recorded
      <4>1. i \in 1..Len(old)
        BY <3>3, <3>7
      <4> QED
        BY <3>3, <3>4, <3>6, <3>8, <4>1
    <3>10. \A i \in 1..Len(load[k]) : load[k][i] \in ToSet(g)
      BY <2>3, <3>3, <3>4, <3>8
    <3>11. ASSUME NEW i \in 1..Len(load[k]) PROVE \E j \in 1..k : load[k][i] = b[j]
      <4>1. k \in 1..k
        BY <1>1, <2>3
      <4> QED
        BY <3>3, <3>5, <3>8, <4>1
    <3>12. ASSUME NEW j \in 1..k, b[j] \in ToSet(g)
           PROVE  \E i \in 1..Len(load[k]) : load[k][i] = b[j]
      <4>1. CASE j = k
        <5>1. Len(old) + 1 \in 1..Len(load[k])
          BY <3>3, <3>7
        <5> QED
          BY <3>3, <4>1, <5>1
      <4>2. CASE j # k
        <5>1. j \in 1..(k - 1)
          BY <1>1, <4>2
        <5>2. PICK i \in 1..Len(old) : old[i] = b[j]
          BY <1>4, <2>3, <3>12, <5>1 DEF old
        <5>3. i \in 1..Len(load[k])
          BY <3>3, <3>7
        <5> QED
          BY <3>3, <5>2, <5>3
      <4> QED
        BY <4>1, <4>2
    <3> QED
      BY <3>9, <3>10, <3>11, <3>12
  <2> QED
    BY <2>1, <2>2, <2>3
<1> DEFINE Bad == {k \in 0..n : ~ Kept(k)}
<1> HIDE DEF Kept
<1>5. Bad = {}
  <2> SUFFICES ASSUME Bad # {} PROVE FALSE
    OBVIOUS
  <2>1. PICK k \in Bad : \A m \in Bad : k <= m
    <3>1. Bad \subseteq Nat
      BY <1>1
    <3> HIDE DEF Bad
    <3> QED
      BY <3>1, LeastNumber
  <2>2. k # 0 => Kept(k - 1)
    BY <1>1, <2>1
  <2> QED
    BY <1>4, <2>1, <2>2
<1>6. Kept(n)
  BY <1>1, <1>5
<1>7. ToSet(b) \cap ToSet(g) \subseteq ToSet(load[n])
  <2> SUFFICES ASSUME NEW j \in 1..n, b[j] \in ToSet(g) PROVE b[j] \in ToSet(load[n])
    BY DEF ToSet, Recorded
  <2>1. PICK i \in 1..Len(load[n]) : load[n][i] = b[j]
    BY <1>6 DEF Kept
  <2>2. load[n] \in Seq(Nat)
    BY <1>6 DEF Kept, Recorded
  <2> QED
    BY <2>1, <2>2 DEF ToSet
<1> QED
  BY <1>3, <1>6, <1>7 DEF Kept

\* Numbers up to n that increase n times are all of them.
LEMMA AllInOrder ==
  ASSUME NEW n \in Nat, NEW at \in [1..n -> 1..n],
         \A i, j \in 1..n : i < j => at[i] < at[j]
  PROVE  \A k \in 1..n : at[k] = k
<1>1. ASSUME NEW k \in 1..n, at[k] < k PROVE FALSE
  <2> DEFINE Bad == {j \in 1..n : at[j] < j}
  <2>1. PICK m \in Bad : \A j \in Bad : m <= j
    <3>1. Bad \subseteq Nat /\ k \in Bad
      BY <1>1
    <3> HIDE DEF Bad
    <3> QED
      BY <3>1, LeastNumber
  <2>2. m \in 1..n /\ at[m] < m /\ at[m] \in 1..n
    BY <2>1
  <2>3. m - 1 \in 1..n
    BY <2>2
  <2>4. at[m - 1] < at[m] /\ at[m - 1] \in 1..n
    BY <2>2, <2>3
  <2>5. m - 1 \in Bad
    BY <2>2, <2>3, <2>4
  <2> QED
    BY <2>1, <2>2, <2>5
<1>2. ASSUME NEW k \in 1..n, at[k] > k PROVE FALSE
  <2> DEFINE Bad == {r \in 0..n : n - r \in 1..n /\ at[n - r] > n - r}
  <2>1. PICK r \in Bad : \A m \in Bad : r <= m
    <3>1. Bad \subseteq Nat
      OBVIOUS
    <3>2. n - k \in Bad
      <4>1. n - (n - k) = k /\ n - k \in 0..n
        OBVIOUS
      <4> QED
        BY <1>2, <4>1
    <3> HIDE DEF Bad
    <3> QED
      BY <3>1, <3>2, LeastNumber
  <2> DEFINE m == n - r
  <2>2. r \in 0..n /\ m \in 1..n /\ at[m] > m /\ at[m] \in 1..n
    BY <2>1
  <2>3. m + 1 \in 1..n
    BY <2>2
  <2>4. at[m] < at[m + 1] /\ at[m + 1] \in 1..n
    BY <2>2, <2>3
  <2>5. n - (r - 1) = m + 1 /\ r - 1 \in 0..n
    BY <2>2, <2>3
  <2>6. r - 1 \in Bad
    BY <2>2, <2>3, <2>4, <2>5
  <2>7. r <= r - 1
    <3> HIDE DEF Bad
    <3> QED
      BY <2>1, <2>6
  <2> QED
    BY <2>2, <2>7
<1>3. ASSUME NEW k \in 1..n PROVE at[k] = k
  <2>1. at[k] \in 1..n /\ ~ (at[k] < k) /\ ~ (at[k] > k)
    BY <1>1, <1>2
  <2> QED
    BY <2>1
<1> QED
  BY <1>3

\* Rows in the order of time, all of times in the time series and no fewer than it
\* has, are its rows.
LEMMA SelectsAll ==
  ASSUME NEW g, NEW base, Recorded(g), Recorded(base), Len(base) >= Len(g),
         \A i \in 1..Len(base) : base[i] \in ToSet(g)
  PROVE  \A k \in 1..Len(g) : base[k] = g[k]
<1> DEFINE n == Len(g)
           at == [k \in 1..n |-> CHOOSE j \in 1..n : g[j] = base[k]]
<1>1. /\ n \in Nat /\ DOMAIN g = 1..n /\ 1..n \subseteq 1..Len(base)
      /\ \A k \in 1..n : g[k] \in Nat /\ base[k] \in Nat
  BY DEF Recorded
<1>2. \A i, j \in 1..n : i < j => g[i] < g[j] /\ base[i] < base[j]
  BY <1>1 DEF Recorded
<1>3. ASSUME NEW k \in 1..n PROVE at[k] \in 1..n /\ g[at[k]] = base[k]
  <2>1. \E j \in 1..n : g[j] = base[k]
    BY <1>1 DEF ToSet
  <2> QED
    BY <2>1
<1>4. at \in [1..n -> 1..n]
  BY <1>3
<1> HIDE DEF at, n
<1>5. ASSUME NEW i \in 1..n, NEW j \in 1..n, i < j PROVE at[i] < at[j]
  <2>1. g[at[i]] < g[at[j]]
    BY <1>2, <1>3, <1>5
  <2>2. at[i] \in 1..n /\ at[j] \in 1..n /\ g[at[i]] \in Nat /\ g[at[j]] \in Nat
    BY <1>1, <1>3
  <2>3. at[i] > at[j] => g[at[j]] < g[at[i]]
    BY <1>2, <2>2
  <2> QED
    BY <2>1, <2>2, <2>3
<1>6. \A k \in 1..n : at[k] = k
  BY <1>1, <1>4, <1>5, AllInOrder
<1> QED
  BY <1>3, <1>6 DEF n

\* The times of a file are those of its rows.
LEMMA TimesOfRows ==
  ASSUME NEW q, Recorded(q)
  PROVE  /\ \A i \in 1..Len(q) : q[i] \in ToSet(q)
         /\ \A T : (\A i \in 1..Len(q) : q[i] \in T) => ToSet(q) \subseteq T
<1>1. DOMAIN q = 1..Len(q)
  BY DEF Recorded
<1> QED
  BY <1>1 DEF ToSet

\* Of two files of the same times in their order none has more rows.
LEMMA NoMoreRows ==
  ASSUME NEW g, NEW base, Recorded(g), Recorded(base), ToSet(g) = ToSet(base)
  PROVE  Len(base) <= Len(g)
<1> SUFFICES ASSUME Len(base) > Len(g) PROVE FALSE
  BY DEF Recorded
<1> DEFINE n == Len(g) + 1
<1>1. /\ Len(g) \in Nat /\ DOMAIN g = 1..Len(g)
      /\ Len(base) \in Nat /\ DOMAIN base = 1..Len(base)
  BY DEF Recorded
<1>2. \A k \in 1..Len(g) : base[k] = g[k]
  <2>1. \A i \in 1..Len(base) : base[i] \in ToSet(g)
    BY <1>1 DEF ToSet
  <2> QED
    BY <1>1, <2>1, SelectsAll
<1>3. n \in 1..Len(base)
  BY <1>1
<1>4. PICK k \in 1..Len(g) : g[k] = base[n]
  BY <1>1, <1>3 DEF ToSet
<1>5. k \in 1..Len(base) /\ k < n
  BY <1>1
<1>6. base[k] < base[n] /\ base[k] = base[n] /\ base[k] \in Nat
  BY <1>2, <1>3, <1>4, <1>5 DEF Recorded
<1> QED
  BY <1>6

\* What a recorder has left is a beginning of its rows.
LEMMA BeginningRecorded ==
  ASSUME NEW s, Recorded(s), NEW g \in Beginnings(s)
  PROVE  /\ Recorded(g)
         /\ \A k \in 1..Len(g) : g[k] = s[k]
<1>1. PICK n \in 0..Len(s) : g = SubSeq(s, 1, n)
  BY DEF Beginnings
<1>2. Len(s) \in Nat /\ \A k \in 1..Len(s) : s[k] \in Nat
  BY DEF Recorded
<1>3. g \in Seq(Nat) /\ Len(g) = n /\ \A k \in 1..n : g[k] = s[k]
  <2>1. \A k \in 1..n : s[k] \in Nat
    BY <1>1, <1>2
  <2>2. /\ SubSeq(s, 1, n) \in Seq(Nat)
        /\ Len(SubSeq(s, 1, n)) = IF 1 <= n THEN n - 1 + 1 ELSE 0
        /\ \A k \in 1..(n - 1 + 1) : SubSeq(s, 1, n)[k] = s[1 + k - 1]
    BY <1>1, <2>1, SubSeqProperties
  <2>3. n \in Nat /\ n - 1 + 1 = n /\ \A k \in 1..n : 1 + k - 1 = k
    BY <1>1, <1>2
  <2> QED
    BY <1>1, <2>2, <2>3
<1>4. \A i, j \in 1..n : i < j => s[i] < s[j]
  BY <1>1, <1>2 DEF Recorded
<1> QED
  BY <1>3, <1>4 DEF Recorded

\* Files that are read together are as long as the shortest.
LEMMA Zipped ==
  ASSUME NEW s \in Seq(Nat), NEW t \in Seq(Nat)
  PROVE  /\ Len(Zip(s, t)) \in Nat
         /\ Len(Zip(s, t)) <= Len(s) /\ Len(Zip(s, t)) <= Len(t)
         /\ \A k \in 1..Len(Zip(s, t)) : Zip(s, t)[k] = <<s[k], t[k]>>
<1> DEFINE l == IF Len(s) <= Len(t) THEN Len(s) ELSE Len(t)
<1>1. l \in Nat /\ l <= Len(s) /\ l <= Len(t)
  OBVIOUS
<1>2. Zip(s, t) = [i \in 1..l |-> <<s[i], t[i]>>]
  BY DEF Zip
<1> HIDE DEF l
<1>3. Len(Zip(s, t)) = l
  BY <1>1, <1>2
<1> QED
  BY <1>1, <1>2, <1>3

\* The least of four lengths.
LEMMA LeastOfFour ==
  ASSUME NEW a \in Nat, NEW b \in Nat, NEW c \in Nat, NEW d \in Nat
  PROVE  LET m == Min({a, b, c, d})
         IN  m \in Nat /\ m <= a /\ m <= b /\ m <= c /\ m <= d
<1>1. PICK m \in {a, b, c, d} : \A k \in {a, b, c, d} : m <= k
  <2>1. {a, b, c, d} \subseteq Nat /\ {a, b, c, d} # {}
    OBVIOUS
  <2> QED
    BY <2>1, LeastNumber
<1>2. Min({a, b, c, d}) \in {a, b, c, d} /\ \A k \in {a, b, c, d} : Min({a, b, c, d}) <= k
  BY <1>1 DEF Min
<1> QED
  BY <1>2

\* A time series that is finished has rows of one time each: as no row is missing,
\* no fewer rows of the baseline run are kept than the time series has, and these
\* are those of its times.
LEMMA FinishedAligned ==
  ASSUME NEW f \in Recordings, ~ Raises(f)
  PROVE  \A k \in 1..Len(Written(f)) : Aligned(Written(f)[k])
<1> DEFINE g == f.generation
           load == f.total_load
           flexible == Zip(f.hvac, f.wh)
           base == BaselineLoad(g, f.baseline)
           unserved == Unserved(f)
           m == Min({Len(g), Len(load), Len(flexible), Len(unserved)})
           s == SimulationTimes
<1>1. /\ Recorded(g) /\ \A k \in 1..Len(g) : g[k] = s[k]
      /\ Recorded(load) /\ \A k \in 1..Len(load) : load[k] = s[k]
      /\ Recorded(f.hvac) /\ \A k \in 1..Len(f.hvac) : f.hvac[k] = s[k]
      /\ Recorded(f.wh) /\ \A k \in 1..Len(f.wh) : f.wh[k] = s[k]
  BY BeginningRecorded, PipelineAssumption DEF Recordings
<1>2. Recorded(f.baseline)
  BY PipelineAssumption DEF Recordings
<1>3. Recorded(base) /\ \A i \in 1..Len(base) : base[i] \in ToSet(g)
  BY <1>2, KeptRows
<1>4. /\ Len(flexible) \in Nat
      /\ \A k \in 1..Len(flexible) : flexible[k] = <<s[k], s[k]>>
  <2>1. f.hvac \in Seq(Nat) /\ f.wh \in Seq(Nat)
    BY <1>1 DEF Recorded
  <2>2. /\ Len(flexible) \in Nat /\ Len(flexible) <= Len(f.hvac) /\ Len(flexible) <= Len(f.wh)
        /\ \A k \in 1..Len(flexible) : flexible[k] = <<f.hvac[k], f.wh[k]>>
    BY <2>1, Zipped
  <2>3. Len(f.hvac) \in Nat /\ Len(f.wh) \in Nat
    BY <2>1
  <2> HIDE DEF flexible
  <2>4. \A k \in 1..Len(flexible) : k \in 1..Len(f.hvac) /\ k \in 1..Len(f.wh)
    BY <2>2, <2>3
  <2> QED
    BY <1>1, <2>2, <2>4
<1>5. Len(unserved) \in Nat
      /\ (f.has_baseline => /\ Len(unserved) <= Len(base)
                            /\ \A k \in 1..Len(unserved) : unserved[k] = <<base[k], load[k]>>)
      /\ (~ f.has_baseline => Len(unserved) = 0)
  <2>1. base \in Seq(Nat) /\ load \in Seq(Nat)
    BY <1>1, <1>3 DEF Recorded
  <2>2. CASE f.has_baseline
    <3>1. unserved = Zip(base, load)
      BY <2>2 DEF Unserved
    <3> HIDE DEF unserved, base, load
    <3> QED
      BY <2>1, <2>2, <3>1, Zipped
  <2>3. CASE ~ f.has_baseline
    BY <2>3 DEF Unserved
  <2> QED
    BY <2>2, <2>3
<1>6. Len(g) \in Nat /\ Len(load) \in Nat
  BY <1>1 DEF Recorded
<1>7. m \in Nat /\ m <= Len(g) /\ m <= Len(load) /\ m <= Len(flexible) /\ m <= Len(unserved)
  <2> HIDE DEF flexible, unserved, g, load
  <2> QED
    BY <1>4, <1>5, <1>6, LeastOfFour
<1>8. /\ Written(f) = [k \in 1..m |->
                         [timestamp |-> g[k], total_load |-> load[k],
                          flexible_load |-> flexible[k], unserved_energy |-> unserved[k]]]
      /\ ~ (Len(Written(f)) < Len(g))
  BY DEF Written, Raises
<1> HIDE DEF g, load, flexible, base, unserved, m, s
<1>9. Len(Written(f)) = m /\ m = Len(g)
  BY <1>6, <1>7, <1>8
<1> SUFFICES ASSUME NEW k \in 1..m PROVE Aligned(Written(f)[k])
  BY <1>9
<1>10. f.has_baseline
  BY <1>5, <1>7
<1>11. base[k] = g[k]
  <2>1. Len(base) \in Nat /\ Len(base) >= Len(g)
    BY <1>3, <1>5, <1>7, <1>9, <1>10 DEF Recorded
  <2> QED
    BY <1>1, <1>3, <1>9, <2>1, SelectsAll
<1>12. k \in 1..Len(g) /\ k \in 1..Len(load) /\ k \in 1..Len(flexible) /\ k \in 1..Len(unserved)
  BY <1>4, <1>5, <1>6, <1>7
<1>13. g[k] = s[k] /\ load[k] = s[k] /\ flexible[k] = <<s[k], s[k]>> /\ unserved[k] = <<s[k], s[k]>>
  BY <1>1, <1>4, <1>5, <1>10, <1>11, <1>12 DEF g, load
<1> DEFINE row == [timestamp |-> g[k], total_load |-> load[k],
                   flexible_load |-> flexible[k], unserved_energy |-> unserved[k]]
<1>14. Written(f)[k] = row
  BY <1>8
<1>15. Aligned(row)
  BY <1>13 DEF Aligned
<1> HIDE DEF row
<1> QED
  BY <1>14, <1>15

\* When every recorder has left all its rows and the baseline run was at least as long
\* and began earlier than the simulation ended, the time series is written in full and
\* nothing is raised: FinishedSeriesAligned is not about files that cannot be.
THEOREM CompleteSeriesWritten ==
  ASSUME NEW f \in Recordings, SimulationTimes # <<>>,
         f.generation = SimulationTimes, f.total_load = SimulationTimes,
         f.hvac = SimulationTimes, f.wh = SimulationTimes, f.has_baseline,
         ToSet(SimulationTimes) \subseteq ToSet(f.baseline),
         Head(f.baseline) # Last(SimulationTimes)
  PROVE  ~ Raises(f) /\ Len(Written(f)) = Len(SimulationTimes)
<1> DEFINE s == SimulationTimes
           base == BaselineLoad(s, f.baseline)
           n == Len(s)
<1>1. Recorded(s) /\ Recorded(f.baseline)
  BY PipelineAssumption DEF Recordings
<1>2. ToSet(s) \subseteq ToSet(base) /\ Recorded(base)
      /\ \A i \in 1..Len(base) : base[i] \in ToSet(s)
  BY <1>1, KeptRows
<1> HIDE DEF base
<1>3. s \in Seq(Nat) /\ base \in Seq(Nat) /\ n \in Nat
  BY <1>1, <1>2 DEF Recorded
<1>4. Len(base) = n
  <2>1. ToSet(base) = ToSet(s)
    BY <1>2, TimesOfRows
  <2>2. Len(base) <= n /\ n <= Len(base)
    BY <1>1, <1>2, <2>1, NoMoreRows
  <2> QED
    BY <1>3, <2>2
<1>5. base = s
  <2>1. \A k \in 1..n : base[k] = s[k]
    BY <1>1, <1>2, <1>3, <1>4, SelectsAll
  <2> QED
    BY <1>3, <1>4, <2>1
<1>6. Zip(s, s) = [i \in 1..n |-> <<s[i], s[i]>>]
  BY <1>3 DEF Zip
<1>7. Len(Zip(s, s)) = n
  BY <1>3, <1>6
<1>8. Unserved(f) = Zip(s, s)
  BY <1>5 DEF Unserved, base
<1>9. Len(Written(f)) = n
  <2>1. Min({n}) = n
    BY <1>3 DEF Min
  <2> DEFINE row(k) == [timestamp |-> s[k], total_load |-> s[k],
                        flexible_load |-> Zip(s, s)[k], unserved_energy |-> Zip(s, s)[k]]
  <2>2. Written(f) = [k \in 1..n |-> row(k)]
    BY <1>7, <1>8, <2>1 DEF Written
  <2> HIDE DEF row
  <2> QED
    BY <1>3, <2>2
<1>10. ~ NoShare(f)
  BY <1>5 DEF NoShare, ZeroEnergy, base
<1> QED
  BY <1>3, <1>9, <1>10 DEF Raises

\* timeseries_gen joins by position the files of two runs with times of their own,
\* any of which may be missing or cut short: what it finishes is aligned, for any
\* times and lengths of the runs.
THEOREM FinishedSeriesAligned == PSpec => []SeriesAligned
<1>1. PInit => SeriesAligned
  BY DEF PInit, SeriesAligned
<1>2. SeriesAligned /\ [PNext]_pvars => SeriesAligned'
  <2> SUFFICES ASSUME SeriesAligned, [PNext]_pvars PROVE SeriesAligned'
    OBVIOUS
  <2>1. CASE CheckInputs \/ RunBaseline \/ WritePs \/ WriteLoads \/ Compile \/ Convert \/ EndSimulation
    BY <2>1 DEF CheckInputs, RunBaseline, WritePs, WriteLoads, Compile, Convert, EndSimulation,
                Step, SeriesAligned
  <2>2. CASE Simulate \/ ScriptOver \/ UNCHANGED pvars
    BY <2>2 DEF Simulate, ScriptOver, pvars, SeriesAligned
  <2>3. CASE Deliver
    BY <2>3 DEF Deliver, Step, SeriesAligned
  <2>4. ASSUME NEW f \in Recordings, PostProcess(f) PROVE SeriesAligned'
    BY <2>4, FinishedAligned DEF PostProcess, SeriesAligned
  <2> QED
    BY <2>1, <2>2, <2>3, <2>4 DEF PNext
<1> QED
  BY <1>1, <1>2, PTL DEF PSpec
=============================================================================
