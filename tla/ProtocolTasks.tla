--------------------------- MODULE ProtocolTasks ---------------------------
(***************************************************************************)
(* Native MCP tasks (mcp/postgres-task-store.ts): the protocol's view of   *)
(* an expert research task.  A call of request_expert_answer creates or    *)
(* finds the expert task of its idempotency key, inserts a native task,    *)
(* links the two and hands the native task out: three transactions of one  *)
(* handler, which may stop between any two.  A client that asks for a task *)
(* ("augmented") polls it; for any other client the protocol library takes *)
(* the status createTask returned and reads the result at once.            *)
(*                                                                         *)
(* The expert task itself is the subject of ExpertTask; here it moves as   *)
(* that module lets it.                                                    *)
(***************************************************************************)
EXTENDS FiniteSets

CONSTANTS
    Calls,     \* calls of request_expert_answer, each with its native task
    Keys,      \* idempotency keys, each with its expert task
    None       \* no value

NoneIsNoKey == None \notin Keys

VARIABLES
    call,      \* the handler of each call
    native,    \* mcp_protocol_tasks
    tasks,    \* expert_tasks, by key
    cancels    \* calls whose client's cancel has read the task

nativeVars == <<call, native, tasks, cancels>>

NativeTerminal == {"completed", "failed", "cancelled"}
Statuses == {"working", "input_required"} \cup NativeTerminal

Idle == [pc |-> "idle", key |-> None, augmented |-> FALSE]
NoRow == [present |-> FALSE, status |-> "working", payload |-> FALSE,
          expert |-> None, expired |-> FALSE]

NativeInit ==
    /\ call = [c \in Calls |-> Idle]
    /\ native = [c \in Calls |-> NoRow]
    /\ tasks = [k \in Keys |-> "none"]
    /\ cancels = {}

(***************************************************************************)
(* The handler.  createExpertTask commits the expert task of the key, or   *)
(* finds it.                                                               *)
(***************************************************************************)
CreateExpertTask(c) ==
    /\ call[c].pc = "idle"
    /\ \E k \in Keys, augmented \in BOOLEAN :
          /\ call' = [call EXCEPT ![c] = [pc |-> "expert", key |-> k,
                                          augmented |-> augmented]]
          /\ tasks' = [tasks EXCEPT ![k] = IF @ = "none" THEN "working" ELSE @]
    /\ UNCHANGED <<native, cancels>>

\* A plain call's native task is completed from the start.
CreateTask(c) ==
    /\ call[c].pc = "expert"
    /\ native' = [native EXCEPT ![c] =
          [NoRow EXCEPT !.present = TRUE,
                        !.status = IF call[c].augmented THEN "working" ELSE "completed"]]
    /\ call' = [call EXCEPT ![c].pc = "created"]
    /\ UNCHANGED <<tasks, cancels>>

\* expert_task_id is UNIQUE, whether the other row has expired or not.
Linkable(k) == \A d \in Calls : native[d].expert # k

\* Mutant: the fallback result is left to the expert task.
LinkedWithoutPayload(row, k) == [row EXCEPT !.expert = k]

Linked(row, k) ==
    [row EXCEPT !.expert = k, !.payload = (@ \/ row.status = "completed")]

LinkExpertTask(c) ==
    /\ call[c].pc = "created"
    /\ IF Linkable(call[c].key)
       THEN /\ native' = [native EXCEPT ![c] = Linked(@, call[c].key)]
            /\ call' = [call EXCEPT ![c].pc = "handed"]
       ELSE /\ call' = [call EXCEPT ![c].pc = "refused"]
            /\ UNCHANGED native
    /\ UNCHANGED <<tasks, cancels>>

\* The handler stops between two of its transactions; the client has no task.
Stop(c) ==
    /\ call[c].pc \in {"expert", "created"}
    /\ call' = [call EXCEPT ![c].pc = "stopped"]
    /\ UNCHANGED <<native, tasks, cancels>>

(***************************************************************************)
(* What a client reads: mapExpertStatus, toTask and getTaskResult.         *)
(***************************************************************************)
Visible(c) == native[c].present /\ ~native[c].expired

ToTask(c) == IF native[c].expert = None THEN native[c].status ELSE tasks[native[c].expert]

ResultReady(c) ==
    \/ native[c].payload
    \/ native[c].expert # None /\ tasks[native[c].expert] = "completed"

(***************************************************************************)
(* A cancel: the library reads the task and refuses one that has ended;    *)
(* updateTaskStatus then cancels both rows, whatever they have become.     *)
(***************************************************************************)
CancelReads(c) ==
    /\ call[c].pc = "handed" /\ Visible(c)
    /\ ToTask(c) \notin NativeTerminal
    /\ cancels' = cancels \cup {c}
    /\ UNCHANGED <<call, native, tasks>>

UpdateTaskStatus(c) ==
    /\ c \in cancels
    /\ cancels' = cancels \ {c}
    /\ native' = [native EXCEPT ![c].status = "cancelled"]
    /\ tasks' = [tasks EXCEPT ![native[c].expert] = "cancelled"]
    /\ UNCHANGED call

\* expires_at passes.
Expire(c) ==
    /\ Visible(c)
    /\ native' = [native EXCEPT ![c].expired = TRUE]
    /\ UNCHANGED <<call, tasks, cancels>>

(***************************************************************************)
(* The research: it asks for input, ends, is cancelled by its credentials, *)
(* and is queued again by its requester or by an administrator.            *)
(***************************************************************************)
Moves == {<<"working", "input_required">>, <<"input_required", "working">>,
          <<"failed", "working">>}
          \cup ({"working", "input_required"} \X NativeTerminal)

Research(k) ==
    /\ \E s \in Statuses :
          /\ <<tasks[k], s>> \in Moves
          /\ tasks' = [tasks EXCEPT ![k] = s]
    /\ UNCHANGED <<call, native, cancels>>

NativeNext ==
    \/ \E c \in Calls :
          \/ CreateExpertTask(c) \/ CreateTask(c) \/ LinkExpertTask(c) \/ Stop(c)
          \/ CancelReads(c) \/ UpdateTaskStatus(c) \/ Expire(c)
    \/ \E k \in Keys : Research(k)

NativeSpec == NativeInit /\ [][NativeNext]_nativeVars

(***************************************************************************)
(* Properties.                                                             *)
(***************************************************************************)

\* Calls, native rows and expert tasks keep their form.
NativeTypeOK ==
    /\ call \in [Calls -> [pc: {"idle", "expert", "created", "handed", "refused", "stopped"},
                           key: Keys \cup {None}, augmented: BOOLEAN]]
    /\ native \in [Calls -> [present: BOOLEAN, status: Statuses, payload: BOOLEAN,
                             expert: Keys \cup {None}, expired: BOOLEAN]]
    /\ tasks \in [Keys -> Statuses \cup {"none"}]
    /\ cancels \subseteq Calls

\* A task handed to a client has its result when the client is led to read it:
\* at once for a plain call, when it reports "completed" for the others, whatever
\* the handler, the research and a cancel did to the two rows.
HandedTaskHasItsResult ==
    \A c \in Calls :
        call[c].pc = "handed" /\ Visible(c)
        /\ (~call[c].augmented \/ ToTask(c) = "completed")
            => ResultReady(c)

=============================================================================
