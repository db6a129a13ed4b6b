---------------------------- MODULE FencedEffects ----------------------------
(***************************************************************************)
(* The job queue composed with the privileged agent that applies host      *)
(* effects (agent/operations/ops.go Dispatch and fence.go, served by       *)
(* cmd/panel-agent with one goroutine per connection).  A worker inside    *)
(* handle sends calls that carry the fence of its claim; the agent         *)
(* compares it with the record it keeps for the resource, runs the method, *)
(* and only then stores the new record in memory and in fences.json.       *)
(*                                                                         *)
(* A call is what one connection goroutine is doing.  A worker waits for   *)
(* its call, so one claim has at most one call in flight; a call outlives  *)
(* a worker that stopped waiting, because the agent serves it with         *)
(* context.Background().  Calls with fence 0 (the API's) are not fenced    *)
(* and are left out.                                                       *)
(***************************************************************************)
EXTENDS JobQueue

CONSTANT MaxAgentCrashes   \* bound: restarts of the agent

ASSUME AgentAssumption == MaxAgentCrashes \in Nat

VARIABLES fences,      \* agent memory: the record of each resource
          file,        \* fences.json
          calls,       \* calls the agent is serving
          acked,       \* history: the highest fence a call was answered for
          agentCrashes \* bound: restarts so far

agentVars == <<fences, file, calls, acked, agentCrashes>>

Record == [fence : Nat, op : Jobs \cup {NoJob}]
NoRecord == [fence |-> 0, op |-> NoJob]
NoRecords == [r \in Resources |-> NoRecord]

\* snap is the copy of the records that storeFence takes under its mutex.
Call == [job : Jobs, fence : Nat,
         phase : {"sent", "running", "recorded"},
         snap : [Resources -> Record]]

AgentTypeOK ==
    /\ TypeOK
    /\ fences \in [Resources -> Record]
    /\ file \in [Resources -> Record]
    /\ calls \in SUBSET Call
    /\ acked \in [Resources -> Nat]
    /\ agentCrashes \in 0..MaxAgentCrashes

AgentInit ==
    /\ Init
    /\ fences = NoRecords
    /\ file = NoRecords
    /\ calls = {}
    /\ acked = [r \in Resources |-> 0]
    /\ agentCrashes = 0

Res(c) == ResourceOf[c.job]
InFlight(w) == \E c \in calls : c.job = workers[w].job /\ c.fence = workers[w].fence

-----------------------------------------------------------------------------
\* Dispatch on the worker's side: the bound envelope gives the call its fence
\* and operation id; a cancelled context sends nothing.
Dispatch(w) ==
    /\ workers[w].pc = "handling" /\ ~workers[w].stopped
    /\ ~InFlight(w)
    /\ calls' = calls \cup {[job |-> workers[w].job, fence |-> workers[w].fence,
                             phase |-> "sent", snap |-> NoRecords]}
    /\ UNCHANGED <<vars, fences, file, acked, agentCrashes>>

\* Mutant: a claim may not come twice.
RefusesOwn(c) == fences[Res(c)].fence >= c.fence

\* acceptFence: a record with a higher fence, or with this fence and another
\* operation, refuses the call.
Refuses(c) ==
    LET rec == fences[Res(c)]
    IN  \/ rec.fence > c.fence
        \/ rec.fence = c.fence /\ rec.op # NoJob /\ rec.op # c.job

\* The receipt of the same operation with the same parameters is replayed
\* without running the method; whether the parameters agree is left open.
MayReplay(c) == fences[Res(c)] = [fence |-> c.fence, op |-> c.job]

AcceptFence(c) ==
    /\ c.phase = "sent"
    /\ \/ /\ ~Refuses(c)
          /\ calls' = (calls \ {c}) \cup {[c EXCEPT !.phase = "running"]}
       \/ /\ Refuses(c) \/ MayReplay(c)
          /\ calls' = calls \ {c}
    /\ UNCHANGED <<vars, fences, file, acked, agentCrashes>>

\* dispatchMethod fails, or the result cannot be stored: what was done to the
\* host stays and no record is made.
MethodFails(c) ==
    /\ c.phase = "running"
    /\ calls' = calls \ {c}
    /\ UNCHANGED <<vars, fences, file, acked, agentCrashes>>

\* dispatchMethod succeeds; rememberFence and storeFence then overwrite the
\* record, whatever it holds, and copy all records while they hold the mutex.
RememberFence(c) ==
    /\ c.phase = "running"
    /\ fences' = [fences EXCEPT ![Res(c)] = [fence |-> c.fence, op |-> c.job]]
    /\ calls' = (calls \ {c}) \cup {[c EXCEPT !.phase = "recorded", !.snap = fences']}
    /\ UNCHANGED <<vars, file, acked, agentCrashes>>

\* persistFences, after the mutex is released, and the answer to the worker.
\* An error of the write is ignored, so the file may also stay as it was.
PersistFences(c) ==
    /\ c.phase = "recorded"
    /\ file' \in {c.snap, file}
    /\ calls' = calls \ {c}
    /\ acked' = [acked EXCEPT ![Res(c)] = Greatest(@, c.fence)]
    /\ UNCHANGED <<vars, fences, agentCrashes>>

\* The agent restarts and ensureFences reads the file.  A restart while the
\* file is being written may find it truncated, which reads as no records.
AgentRestart ==
    /\ agentCrashes < MaxAgentCrashes
    /\ agentCrashes' = agentCrashes + 1
    /\ \/ UNCHANGED file
       \/ (\E c \in calls : c.phase = "recorded") /\ file' = NoRecords
    /\ fences' = file'
    /\ calls' = {}
    /\ UNCHANGED <<vars, acked>>

-----------------------------------------------------------------------------
AgentStep ==
    \/ \E w \in Workers : Dispatch(w)
    \/ \E c \in calls : \/ AcceptFence(c) \/ MethodFails(c)
                        \/ RememberFence(c) \/ PersistFences(c)
    \/ AgentRestart

\* Queue steps; a handler does not return while it waits for a call, unless its
\* context was cancelled or its process died.
QueueStep ==
    /\ Next
    /\ \A w \in Workers :
          InFlight(w) /\ workers[w].pc = "handling" /\ workers'[w].pc = "idle"
          => workers[w].stopped \/ faults' # faults
    /\ UNCHANGED agentVars

AgentNext == AgentStep \/ QueueStep

AgentSpec == AgentInit /\ [][AgentNext]_<<vars, agentVars>>

-----------------------------------------------------------------------------
(* Properties.                                                             *)

\* The agent never refuses the claim with the resource's latest fence: a record
\* never runs ahead of the claims, also not after a restart with a lost or
\* truncated file or when records are stored out of order.
LatestClaimNotRefused ==
    \A c \in calls :
        c.phase = "sent" /\ c.fence = resFence[Res(c)] => ~Refuses(c)

\* Requirement R10 of the remediation plan: stale workers cannot begin a host
\* mutation.  Once a call of a claim was answered, no call of an older claim on
\* the resource passes the agent's check.
StaleCannotBegin ==
    [][\A c \in calls :
          [c EXCEPT !.phase = "running"] \in calls' /\ c.phase = "sent"
          => c.fence >= acked[Res(c)]]_<<vars, agentVars>>
=============================================================================
