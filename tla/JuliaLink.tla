----------------------------- MODULE JuliaLink ------------------------------
(***************************************************************************)
(* The simulation and the Julia server it starts and calls: on_init and    *)
(* on_term of absorption.py, julia_server.py, julia_client.py and the loop *)
(* of julia/server.jl.  Each side of the ZeroMQ PAIR connection queues     *)
(* what it sends until the other one receives it; neither side waits for   *)
(* the other with a timeout.  Calls are numbered to tell them apart, the   *)
(* messages themselves carry no number.                                    *)
(***************************************************************************)
EXTENDS Naturals, Sequences

CONSTANTS
  MaxCalls,   \* calls of one simulation (bounds the model)
  Faults      \* what may go wrong, of FaultKinds

\* "baseline": Loads_baseline.csv cannot be read; "popen": there is no julia to
\* start; "connect": the client's address is unusable; "load": the server dies
\* before it listens (a missing package, its port still taken); "error": an
\* optimization ends in error() or an exception; "callback": the rest of on_init,
\* or on_commit, raises; "ring": on_commit searches a ring of closed branches for
\* loads to shut off, and goes round for ever.
FaultKinds == {"baseline", "popen", "connect", "load", "error", "callback", "ring"}

ASSUME LinkAssumption == MaxCalls \in Nat /\ Faults \subseteq FaultKinds

VARIABLES
  pc,           \* the simulation: starting, waiting in recv(), running, hung in a
                \* callback, over, or failed (over after an exception)
  Absorption,   \* the global of absorption.py: use the server at all
  handle,       \* _server_process is set
  server,       \* the server process
  job,          \* the message it works on
  toServer,     \* messages sent and not yet received
  toClient,     \* replies sent and not yet received
  sent,         \* number of messages sent
  received      \* number of replies received

vars == <<pc, Absorption, handle, server, job, toServer, toClient, sent, received>>

Ops == {"ping", "islanding", "management"}
Message == [op : Ops, n : 1..MaxCalls + 1]
NoJob == [op |-> "ping", n |-> 1]

Init ==
  /\ pc = "starting"
  /\ Absorption \in BOOLEAN   \* LOAD_CONTROL
  /\ handle = FALSE
  /\ server = "none"
  /\ job = NoJob
  /\ toServer = <<>> /\ toClient = <<>>
  /\ sent = 0 /\ received = 0

-----------------------------------------------------------------------------
(* The client side.                                                        *)

\* send() and send_data(): send, then block in recv().
Send(op) ==
  /\ toServer' = Append(toServer, [op |-> op, n |-> sent + 1])
  /\ sent' = sent + 1
  /\ pc' = "waiting"

\* on_init does without a server, or raises before it starts one.
NoLoadControl ==
  /\ pc = "starting" /\ ~Absorption
  /\ pc' = "running"
  /\ UNCHANGED <<Absorption, handle, server, job, toServer, toClient, sent, received>>

InitRaises ==
  /\ pc = "starting" /\ Absorption
  /\ "baseline" \in Faults
  /\ pc' = "failed"
  /\ UNCHANGED <<Absorption, handle, server, job, toServer, toClient, sent, received>>

\* JuliaServer.start(), to the recv() of its ping.
Start ==
  /\ pc = "starting" /\ Absorption
  /\ server' = "loading"
  /\ Send("ping")
  /\ UNCHANGED <<Absorption, handle, job, toClient, received>>

\* (mutants) the process is left running; Absorption stays on.
StartFailsUnkilled ==
  /\ pc = "starting" /\ Absorption
  /\ \/ "popen" \in Faults /\ server' = server
     \/ "connect" \in Faults /\ server' = "loading"
  /\ Absorption' = FALSE
  /\ pc' = "running"
  /\ UNCHANGED <<handle, job, toServer, toClient, sent, received>>
StartFailsUnnoticed ==
  /\ pc = "starting" /\ Absorption
  /\ \/ "popen" \in Faults /\ server' = server
     \/ "connect" \in Faults /\ server' = "dead"
  /\ pc' = "running"
  /\ UNCHANGED <<Absorption, handle, job, toServer, toClient, sent, received>>

\* Popen raises, or connect() does and the process is killed: on_init goes on
\* without the server.
StartFails ==
  /\ pc = "starting" /\ Absorption
  /\ \/ "popen" \in Faults /\ server' = server
     \/ "connect" \in Faults /\ server' = "dead"
  /\ Absorption' = FALSE
  /\ pc' = "running"
  /\ UNCHANGED <<handle, job, toServer, toClient, sent, received>>

\* recv() returns; the first reply is that of start(), which then keeps the
\* process it will have to stop.
Receive ==
  /\ pc = "waiting"
  /\ toClient # <<>>
  /\ toClient' = Tail(toClient)
  /\ received' = received + 1
  /\ handle' = TRUE
  /\ pc' = "running"
  /\ UNCHANGED <<Absorption, server, job, toServer, sent>>

\* islanding() and the loop of island_management(), called by on_commit.
CallServer(op) ==
  /\ pc = "running"
  /\ Absorption
  /\ sent <= MaxCalls
  /\ Send(op)
  /\ UNCHANGED <<Absorption, handle, server, job, toClient, received>>

\* What on_term() does: JuliaServer.stop().
Stop ==
  IF Absorption /\ handle
  THEN server' = "dead" /\ handle' = FALSE
  ELSE UNCHANGED <<server, handle>>

\* The simulation reaches its stop time.
OnTerm ==
  /\ pc = "running"
  /\ pc' = "over"
  /\ Stop
  /\ UNCHANGED <<Absorption, job, toServer, toClient, sent, received>>

\* An exception in on_init after start(), or in on_commit, ends the simulation;
\* whether GridLAB-D calls on_term then is not for this code to say.
CallbackRaises ==
  /\ pc = "running"
  /\ "callback" \in Faults
  /\ pc' = "failed"
  /\ Stop \/ UNCHANGED <<server, handle>>
  /\ UNCHANGED <<Absorption, job, toServer, toClient, sent, received>>

\* shutoff_noislanding follows a ring of closed branches for ever.
SearchHangs ==
  /\ pc = "running" /\ ~Absorption
  /\ "ring" \in Faults
  /\ pc' = "hung"
  /\ UNCHANGED <<Absorption, handle, server, job, toServer, toClient, sent, received>>

-----------------------------------------------------------------------------
(* The server side.                                                        *)

Listen ==
  /\ server = "loading"
  /\ server' = "listening"
  /\ UNCHANGED <<pc, Absorption, handle, job, toServer, toClient, sent, received>>

LoadFails ==
  /\ server = "loading"
  /\ "load" \in Faults
  /\ server' = "dead"
  /\ UNCHANGED <<pc, Absorption, handle, job, toServer, toClient, sent, received>>

TakeMessage ==
  /\ server = "listening"
  /\ toServer # <<>>
  /\ job' = Head(toServer)
  /\ toServer' = Tail(toServer)
  /\ server' = "working"
  /\ UNCHANGED <<pc, Absorption, handle, toClient, sent, received>>

\* (mutant) a branch without its continue: the final send() follows the reply.
ReplyTwice ==
  /\ server = "working"
  /\ toClient' = IF job.op = "ping" THEN Append(toClient, job) ELSE toClient \o <<job, job>>
  /\ server' = "listening"
  /\ UNCHANGED <<pc, Absorption, handle, job, toServer, sent, received>>

\* (mutant) an operation the branches do not send a reply for.
ReplySometimes ==
  /\ server = "working"
  /\ toClient' = IF job.op = "management" THEN toClient ELSE Append(toClient, job)
  /\ server' = "listening"
  /\ UNCHANGED <<pc, Absorption, handle, job, toServer, sent, received>>

\* (mutant) a branch that misses its op: the final send() answers "Received ...".
ReplyAsText ==
  /\ server = "working"
  /\ toClient' = Append(toClient, [job EXCEPT !.op = IF @ = "islanding" THEN "received" ELSE @])
  /\ server' = "listening"
  /\ UNCHANGED <<pc, Absorption, handle, job, toServer, sent, received>>

\* Each branch of the loop sends one reply and goes on.
Reply ==
  /\ server = "working"
  /\ toClient' = Append(toClient, job)
  /\ server' = "listening"
  /\ UNCHANGED <<pc, Absorption, handle, job, toServer, sent, received>>

\* (mutant) the server is started anew, the message it worked on is gone.
OperationFailsRestart ==
  /\ server = "working"
  /\ job.op # "ping"
  /\ "error" \in Faults
  /\ server' = "loading"
  /\ UNCHANGED <<pc, Absorption, handle, job, toServer, toClient, sent, received>>

\* Nothing in the loop catches an exception: the process ends.
OperationFails ==
  /\ server = "working"
  /\ job.op # "ping"
  /\ "error" \in Faults
  /\ server' = "dead"
  /\ UNCHANGED <<pc, Absorption, handle, job, toServer, toClient, sent, received>>

\* The simulation stops for good when it is over, in a search without end, or in a
\* recv() that a dead server will not answer.
Over ==
  /\ pc \in {"over", "failed", "hung"}
  /\ UNCHANGED vars

Abandoned ==
  /\ pc = "waiting" /\ toClient = <<>> /\ server = "dead"
  /\ UNCHANGED vars

ServerNext == Listen \/ LoadFails \/ TakeMessage \/ Reply \/ OperationFails
OnInit == NoLoadControl \/ InitRaises \/ Start \/ StartFails
ClientNext == OnInit \/ Receive \/ OnTerm \/ CallbackRaises \/ SearchHangs
              \/ \E op \in {"islanding", "management"} : CallServer(op)
Next == ServerNext \/ ClientNext \/ Over \/ Abandoned

\* A process that runs goes on running: the server loads, takes what it was sent
\* and works it off, and recv() returns what is there.  Nothing makes the
\* simulation call the server or end.
Fairness ==
  WF_vars(ServerNext) /\ WF_vars(Receive) /\ WF_vars(OnInit)

Spec == Init /\ [][Next]_vars /\ Fairness

-----------------------------------------------------------------------------
(* Properties.                                                             *)

\* Types: the process is held as such from the first answer on, messages are the
\* calls of on_init and on_commit.
TypeOK ==
  /\ pc \in {"starting", "waiting", "running", "hung", "over", "failed"}
  /\ Absorption \in BOOLEAN /\ handle \in BOOLEAN
  /\ server \in {"none", "loading", "listening", "working", "dead"}
  /\ job \in Message
  /\ toServer \in Seq(Message) /\ toClient \in Seq(Message)
  /\ sent \in Nat /\ received \in Nat

\* The client takes the next message it receives for the answer to the one it
\* sent last.  That is right although messages are not numbered, whatever the
\* server does: a reply is only ever under way to a client that waits for it.
ReplyAnswersCall ==
  toClient # <<>> => pc = "waiting" /\ Len(toClient) = 1 /\ Head(toClient).n = sent

\* When the simulation has ended, a server that still runs, and keeps the port from
\* the next one, is one that on_term would have stopped, had an exception not come
\* before it: no failed start leaves one, and no simulation that reaches its end.
ServerLeftByException ==
  pc \in {"over", "failed"} /\ server \notin {"none", "dead"} =>
    pc = "failed" /\ Absorption /\ handle

\* The simulation only goes on with Absorption, and so sends calls that it waits
\* for, if start() has had an answer from a server it can stop.
AbsorptionHasServer == pc = "running" /\ Absorption => handle

\* Every message sent is executed once, its answer is what the call returns, and
\* only the end of the server keeps a call from returning.
Calls == INSTANCE RemoteCall
           WITH called <- sent, executed <- received + Len(toClient), returned <- received,
                broken <- server = "dead"
ImplementsCalls == Calls!Spec
CallsAreSafe == Calls!Safe

\* How far the answer to a call is away: the server has to load, take the message
\* and work on it, the client to receive what it sends.  A server that died with
\* the message is as far away as can be.
AnswerDistance ==
  CASE toClient # <<>> -> 1
    [] toClient = <<>> /\ server = "working" -> 2
    [] toClient = <<>> /\ server = "listening" -> 3
    [] toClient = <<>> /\ server = "loading" -> 4
    [] OTHER -> 5

\* While the simulation waits, every step of either process brings the answer
\* nearer or ends the server: no message is put back, and none is worked on twice.
AnswerComesNearer ==
  [][pc = "waiting" => \/ pc' = "running"
                       \/ AnswerDistance' < AnswerDistance
                       \/ server # "dead" /\ server' = "dead"]_vars

\* on_init catches what start() raises and goes on without the server (the
\* message of absorption.py:84 is "Julia server couldn't start; turning off all
\* Packetized Integration (Absorption)"): the simulation starts in any case.
SimulationStarts == <>(pc \in {"running", "over", "failed"})
=============================================================================
