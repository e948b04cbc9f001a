--------------------------- MODULE PendingWrites ---------------------------
(***************************************************************************)
(* The write path of the Firestore client the app links: SyncEngine and    *)
(* LocalStore put a write in the persistent mutation queue of the user,    *)
(* RemoteStore keeps the oldest ones in a pipeline, WriteStream carries    *)
(* them over a gRPC call that may break at any moment, and the responses   *)
(* are matched to the pipeline by their order alone.  Every step below is  *)
(* one operation on the client's worker queue, or one of the server's.     *)
(***************************************************************************)
EXTENDS Naturals, Sequences, FiniteSets

CONSTANTS
  User,        (* the users that sign in on the device, or no user at all  *)
  Ops,         (* the kinds of write the app issues                        *)
  MaxPending,  (* kMaxPendingWrites                                        *)
  MaxWrites,   (* bounds the writes issued                                 *)
  MaxFaults    (* bounds the broken calls, sign-ins and restarts           *)

ASSUME OpsAssumption    == Ops \subseteq {"set", "update", "like", "delete"}
ASSUME BoundsAssumption == /\ MaxPending \in Nat \ {0}
                           /\ MaxWrites \in Nat
                           /\ MaxFaults \in Nat

VARIABLES
  user,       (* the user signed in                                        *)
  queue,      (* durable: the mutation queue of each user                  *)
  saved,      (* durable: the stream token stored with it                  *)
  nextId,     (* next_batch_id_                                            *)
  callbacks,  (* mutation_callbacks_: who waits for which batch            *)
  pipeline,   (* write_pipeline_                                           *)
  stream,     (* the state of the write stream                             *)
  shake,      (* how far the handshake of the current call has come        *)
  token,      (* last_stream_token_                                        *)
  idle,       (* the idle timer is running                                 *)
  up,         (* the current call: batches on their way to the server      *)
  down,       (* the current call: results on their way to the client      *)
  ended,      (* the current call: the server has ended it with an error   *)
  docs,       (* the server: the document each user's writes go to         *)
  count,      (* history: the number of writes issued                      *)
  wanted,     (* history: the document had each write taken effect once    *)
  reached,    (* history: the writes the server has answered               *)
  applied,    (* history: the writes the server has carried out            *)
  told,       (* history: the outcomes given to the callbacks              *)
  faults      (* history: faults so far                                    *)

durable == <<queue, saved>>
session == <<nextId, callbacks>>
call    == <<shake, up, down, ended>>
server  == <<docs, reached, applied>>
vars    == <<user, durable, session, pipeline, stream, token, idle, call,
             server, count, wanted, told, faults>>

(* A batch holds one mutation: the app uses neither batched writes nor     *)
(* transactions.  n identifies the write, which the code has no means to.  *)
Batch == [id: Nat, n: Nat, op: Ops]

Absent == [val |-> 0, likes |-> 0]

Doc == [val: Nat, likes: Nat]

Accepts(d, op) == op \in {"set", "delete"} \/ d.val # 0

Effect(d, op, n) ==
  CASE op = "set"    -> [val |-> n, likes |-> 0]
    [] op = "update" -> [d EXCEPT !.val = n]
    [] op = "like"   -> [d EXCEPT !.likes = @ + 1]
    [] op = "delete" -> Absent

Attempt(d, op, n) == IF Accepts(d, op) THEN Effect(d, op, n) ELSE d

Init ==
  /\ user \in User
  /\ queue     = [u \in User |-> << >>]
  /\ saved     = [u \in User |-> "none"]
  /\ nextId    = 1
  /\ callbacks = {}
  /\ pipeline  = << >>
  /\ stream    = "initial"
  /\ shake     = "no"
  /\ token     = "none"
  /\ idle      = FALSE
  /\ up        = << >>
  /\ down      = << >>
  /\ ended     = FALSE
  /\ docs      = [u \in User |-> Absent]
  /\ count     = 0
  /\ wanted    = [u \in User |-> Absent]
  /\ reached   = {}
  /\ applied   = {}
  /\ told      = << >>
  /\ faults    = 0

-----------------------------------------------------------------------------
(* RemoteStore.                                                            *)
IsStarted(st) == st \in {"starting", "backoff", "open"}

(* NextMutationBatchAfterBatchId: the place of the first batch with a      *)
(* higher id, one past the end if there is none.                           *)
PlaceAfter(q, id) ==
  CHOOSE k \in 1..(Len(q) + 1) :
    /\ \A i \in 1..(k-1) : q[i].id <= id
    /\ k <= Len(q) => q[k].id > id

LastId(p) == IF p = << >> THEN 0 ELSE p[Len(p)].id

Lesser(a, b) == IF a < b THEN a ELSE b

(* Mutant: the pipeline is filled from the oldest batch again.             *)
FetchedAnew(q, p) == SubSeq(q, 1, Lesser(Len(q), MaxPending - Len(p)))

(* The batches FillWritePipeline adds to a pipeline p from a queue q.      *)
Fetched(q, p) ==
  LET k == PlaceAfter(q, LastId(p)) IN
    SubSeq(q, k, Lesser(Len(q), k + MaxPending - Len(p) - 1))

(* Start, called on a stream that is not started: an error is backed off   *)
(* from, anything else asks for credentials at once.                       *)
Started(st) == IF st = "error" THEN "backoff" ELSE "starting"

(* Mutant: the idle timer runs on when writes are sent.                    *)
FillWritePipelineIdling(q, p, st, sh, sent) ==
  LET new == Fetched(q, p) IN
    /\ pipeline' = p \o new
    /\ stream' = IF ~IsStarted(st) /\ pipeline' # << >> THEN Started(st) ELSE st
    /\ up' = IF st = "open" /\ sh = "complete" THEN sent \o new ELSE sent
    /\ idle' = IF pipeline' = << >> THEN st = "open" ELSE idle

(* FillWritePipeline, on queue q, pipeline p and stream state st.  What is *)
(* added is sent at once if the handshake of the call is complete, which   *)
(* also cancels the idle timer; an empty pipeline starts that timer.       *)
FillWritePipeline(q, p, st, sh, sent) ==
  LET new  == Fetched(q, p)
      live == st = "open" /\ sh = "complete"
  IN
    /\ pipeline' = p \o new
    /\ stream' = IF ~IsStarted(st) /\ pipeline' # << >> THEN Started(st) ELSE st
    /\ up' = IF live THEN sent \o new ELSE sent
    /\ idle' = IF pipeline' = << >> THEN st = "open"
               ELSE IF live /\ new # << >> THEN FALSE ELSE idle

(* NotifyUser: the callback registered for the batch id, if this session   *)
(* of the app registered one, is told and erased.                          *)
Mine(b) == {c \in callbacks : c.user = user /\ c.id = b.id}

Outcomes(b, ok) ==
  IF Mine(b) = {} THEN told
  ELSE Append(told, [n |-> (CHOOSE c \in Mine(b) : TRUE).n, ok |-> ok])

(* Mutant: the callback stays registered.                                  *)
NotifyUserAgain(b, ok) == told' = Outcomes(b, ok) /\ UNCHANGED callbacks

NotifyUser(b, ok) ==
  /\ told' = Outcomes(b, ok)
  /\ callbacks' = callbacks \ Mine(b)

(* RemoveMutationBatch: seeks the key of the batch, wherever it stands.    *)
Without(q, b) ==
  LET k == PlaceAfter(q, b.id - 1) IN
    SubSeq(q, 1, k - 1) \o SubSeq(q, k + 1, Len(q))

-----------------------------------------------------------------------------
(* SyncEngine::WriteMutations, with LocalStore::WriteLocally.              *)
WriteMutations(op) ==
  /\ count < MaxWrites
  /\ count' = count + 1
  /\ LET b == [id |-> nextId, n |-> count + 1, op |-> op] IN
       /\ queue' = [queue EXCEPT ![user] = Append(@, b)]
       /\ callbacks' = callbacks \cup {[user |-> user, id |-> b.id, n |-> b.n]}
       /\ wanted' = [wanted EXCEPT ![user] = Attempt(@, op, b.n)]
  /\ nextId' = nextId + 1
  /\ FillWritePipeline(queue'[user], pipeline, stream, shake, up)
  /\ UNCHANGED <<user, saved, token, shake, down, ended, server, told, faults>>

(* The credentials arrive: the call is created, is open at once and the    *)
(* handshake is written, without the token (WriteHandshake).               *)
ResumeStartWithCredentials ==
  /\ stream = "starting"
  /\ stream' = "open"
  /\ shake' = "asked"
  /\ idle' = FALSE
  /\ UNCHANGED <<user, durable, session, pipeline, token, up, down, ended,
                 server, count, wanted, told, faults>>

BackoffElapsed ==
  /\ stream = "backoff"
  /\ stream' = "starting"
  /\ UNCHANGED <<user, durable, session, pipeline, token, idle, call,
                 server, count, wanted, told, faults>>

(* The first response completes the handshake: the token is stored and the *)
(* whole pipeline is sent (OnWriteStreamHandshakeComplete).                *)
OnHandshakeResponse ==
  /\ stream = "open" /\ shake = "answered"
  /\ shake' = "complete"
  /\ token' = "given"
  /\ saved' = [saved EXCEPT ![user] = "given"]
  /\ up' = pipeline
  /\ idle' = IF pipeline = << >> THEN idle ELSE FALSE
  /\ UNCHANGED <<user, queue, session, pipeline, stream, down, ended,
                 server, count, wanted, told, faults>>

(* A result: it is taken to be the result of the first batch of the        *)
(* pipeline, whatever batch the server answered.                           *)
OnMutationResult ==
  /\ stream = "open" /\ down # << >>
  /\ down' = Tail(down)
  /\ token' = "given"
  /\ LET b == Head(pipeline) IN
       /\ NotifyUser(b, TRUE)
       /\ queue' = [queue EXCEPT ![user] = Without(@, b)]
       /\ saved' = [saved EXCEPT ![user] = "given"]
  /\ FillWritePipeline(queue'[user], Tail(pipeline), stream, shake, up)
  /\ UNCHANGED <<user, nextId, shake, ended, server, count, wanted, faults>>

(* Mutant: what was read off the old call is handled on the next one.      *)
HangUpReading == shake' = "no" /\ ended' = FALSE /\ UNCHANGED down

(* The call is over: its messages are lost with it.                        *)
HangUp == shake' = "no" /\ down' = << >> /\ ended' = FALSE

(* An error the stream restarts after, with the pipeline as it is; before  *)
(* the handshake completes a permanent one, or ABORTED, resets the token.  *)
CloseAndRetry(permanent) ==
  /\ HangUp
  /\ up' = << >>
  /\ idle' = FALSE
  /\ stream' = IF pipeline = << >> THEN "error" ELSE "backoff"
  /\ IF permanent /\ shake # "complete" /\ pipeline # << >>
     THEN token' = "none" /\ saved' = [saved EXCEPT ![user] = "none"]
     ELSE UNCHANGED <<token, saved>>
  /\ UNCHANGED <<user, queue, session, pipeline, server, count, wanted, told>>

(* Mutant: the stream is not started again for the batches that are left.  *)
CloseAndRejectOnly ==
  /\ HangUp
  /\ LET b == Head(pipeline) IN
       /\ queue' = [queue EXCEPT ![user] = Without(@, b)]
       /\ NotifyUser(b, FALSE)
  /\ pipeline' = Tail(pipeline) \o Fetched(queue'[user], Tail(pipeline))
  /\ stream' = "initial"
  /\ up' = << >>
  /\ idle' = FALSE
  /\ UNCHANGED <<user, saved, nextId, token, server, count, wanted, faults>>

(* HandleWriteError: a permanent error is taken to be about the first      *)
(* batch of the pipeline, which is dropped; no backoff then.               *)
CloseAndReject ==
  /\ HangUp
  /\ LET b == Head(pipeline) IN
       /\ queue' = [queue EXCEPT ![user] = Without(@, b)]
       /\ NotifyUser(b, FALSE)
  /\ LET new == Fetched(queue'[user], Tail(pipeline)) IN
       /\ pipeline' = Tail(pipeline) \o new
       /\ stream' = IF pipeline' = << >> THEN "initial" ELSE "starting"
  /\ up' = << >>
  /\ idle' = FALSE
  /\ UNCHANGED <<user, saved, nextId, token, server, count, wanted, faults>>

(* The credentials cannot be had, the network is gone, the server is       *)
(* unavailable or gives up: whatever the call was doing.  After the        *)
(* handshake such an error is retried even if it is ABORTED; before it, it *)
(* may be permanent.                                                       *)
Break ==
  /\ stream \in {"starting", "open"}
  /\ faults < MaxFaults
  /\ faults' = faults + 1
  /\ \E permanent \in BOOLEAN : CloseAndRetry(permanent)

(* The error the server ended the call with arrives, after the results it  *)
(* gave before; or at once, when the client notices that a request it had  *)
(* still to send cannot be sent, and drops the results it has not read     *)
(* (GrpcStream::OnOperationFailed).                                        *)
OnStreamFinish ==
  /\ stream = "open" /\ ended
  /\ down = << >> \/ up # << >>
  /\ CloseAndReject

(* The idle timer: the stream is stopped without an error.                 *)
IdleTimeout ==
  /\ idle
  /\ HangUp
  /\ up' = << >>
  /\ idle' = FALSE
  /\ stream' = "initial"
  /\ UNCHANGED <<user, durable, session, pipeline, token, server, count,
                 wanted, told, faults>>

(* LevelDbMutationQueue::Start: the ids go on after those still stored.    *)
LoadNextBatchId ==
  LET ids == UNION {{queue[u][i].id : i \in DOMAIN queue[u]} : u \in User} IN
    CHOOSE k \in 1..nextId :
      /\ \A id \in ids : id < k
      /\ k = 1 \/ k - 1 \in ids

(* Mutant: the pipeline of the other user is not cleared.                  *)
EnableNetworkUncleared(u, st) ==
  /\ HangUp
  /\ token' = saved[u]
  /\ pipeline' = pipeline \o Fetched(queue[u], pipeline)
  /\ stream' = IF pipeline' = << >> THEN st ELSE Started(st)
  /\ up' = << >>
  /\ idle' = FALSE

(* The pipeline is filled afresh for user u, with the stream in state st.  *)
EnableNetwork(u, st) ==
  /\ HangUp
  /\ token' = saved[u]
  /\ pipeline' = Fetched(queue[u], << >>)
  /\ stream' = IF pipeline' = << >> THEN st ELSE Started(st)
  /\ up' = << >>
  /\ idle' = FALSE

(* SyncEngine::HandleCredentialChange: another user, or new credentials of *)
(* the same one.  Stop leaves a stream alone that is not started, so one   *)
(* that failed with nothing to send will still back off.                   *)
HandleCredentialChange(u) ==
  /\ faults < MaxFaults
  /\ faults' = faults + 1
  /\ user' = u
  /\ nextId' = IF u = user THEN nextId ELSE LoadNextBatchId
  /\ EnableNetwork(u, IF IsStarted(stream) THEN "initial" ELSE stream)
  /\ UNCHANGED <<durable, callbacks, server, count, wanted, told>>

(* The app is killed and started again: it keeps the queues and the user.  *)
(* It may be killed inside HandleSuccessfulWrite, after the callback was   *)
(* told and before the batch is removed.                                   *)
Restart ==
  /\ faults < MaxFaults
  /\ faults' = faults + 1
  /\ callbacks' = {}
  /\ nextId' = LoadNextBatchId
  /\ told' \in {told} \cup (IF stream = "open" /\ down # << >>
                            THEN {Outcomes(Head(pipeline), TRUE)} ELSE {})
  /\ EnableNetwork(user, "initial")
  /\ UNCHANGED <<user, durable, server, count, wanted>>

-----------------------------------------------------------------------------
(* The server, as the client must take it to be: it answers the handshake  *)
(* and then, in order, each batch of the call; it cannot tell a batch it   *)
(* has carried out before, because no request names the earlier call.      *)
Serving == stream = "open" /\ ~ended

AnswerHandshake ==
  /\ Serving /\ shake = "asked"
  /\ shake' = "answered"
  /\ UNCHANGED <<user, durable, session, pipeline, stream, token, idle, up,
                 down, ended, server, count, wanted, told, faults>>

AnswerBatch ==
  /\ Serving /\ up # << >>
  /\ up' = Tail(up)
  /\ LET b == Head(up) IN
       /\ reached' = reached \cup {b.n}
       /\ IF Accepts(docs[user], b.op)
          THEN /\ docs' = [docs EXCEPT ![user] = Effect(@, b.op, b.n)]
               /\ applied' = applied \cup {b.n}
               /\ down' = Append(down, b)
               /\ UNCHANGED ended
          ELSE /\ ended' = TRUE
               /\ UNCHANGED <<docs, applied, down>>
  /\ UNCHANGED <<user, durable, session, pipeline, stream, shake, token, idle,
                 count, wanted, told, faults>>

-----------------------------------------------------------------------------
ClientStep ==
  \/ ResumeStartWithCredentials \/ BackoffElapsed \/ OnHandshakeResponse
  \/ OnMutationResult \/ OnStreamFinish

ServerStep == AnswerHandshake \/ AnswerBatch

Next ==
  \/ \E op \in Ops : WriteMutations(op)
  \/ ClientStep \/ ServerStep
  \/ Break \/ IdleTimeout \/ Restart
  \/ \E u \in User : HandleCredentialChange(u)

(* The client's own steps are posted on its worker queue or are timers;    *)
(* the server answers while the call lasts.  The faults are finitely many, *)
(* which stands for a network that is back for long enough in the end.     *)
Spec == Init /\ [][Next]_vars /\ WF_vars(ClientStep) /\ WF_vars(ServerStep)

-----------------------------------------------------------------------------
(* Type invariant.                                                         *)
TypeOK ==
  /\ user \in User
  /\ queue \in [User -> Seq(Batch)]
  /\ saved \in [User -> {"none", "given"}]
  /\ nextId \in Nat \ {0}
  /\ callbacks \subseteq [user: User, id: Nat, n: Nat]
  /\ pipeline \in Seq(Batch)
  /\ stream \in {"initial", "starting", "open", "error", "backoff"}
  /\ shake \in {"no", "asked", "answered", "complete"}
  /\ token \in {"none", "given"}
  /\ idle \in BOOLEAN
  /\ up \in Seq(Batch) /\ down \in Seq(Batch)
  /\ ended \in BOOLEAN
  /\ count \in Nat /\ faults \in Nat
  /\ reached \subseteq Nat /\ applied \subseteq Nat
  /\ told \in Seq([n: Nat, ok: BOOLEAN])
  /\ docs \in [User -> Doc] /\ wanted \in [User -> Doc]

(* The ids of a queue grow, are below the next one to be given, and name   *)
(* the writes in the order they were issued.                               *)
Ascending(q) ==
  /\ \A i \in DOMAIN q : q[i].id \in 1..(nextId - 1) /\ q[i].n \in 1..count
  /\ \A i, j \in DOMAIN q : i < j => q[i].id < q[j].id /\ q[i].n < q[j].n

(* Sequence p is where sequence q starts at offset k.                      *)
Within(p, q, k) == /\ Len(p) + k <= Len(q)
                   /\ \A i \in 1..Len(p) : p[i] = q[k + i]

(* The pipeline holds the oldest batches of the user, as many as it may.   *)
Filled ==
  /\ Within(pipeline, queue[user], 0)
  /\ Len(pipeline) = Lesser(Len(queue[user]), MaxPending)

(* Whoever waits, waits for a batch that is still in the queue under the   *)
(* id it was given, though ids are given again after a restart or another  *)
(* user's sign-in.                                                         *)
Awaited ==
  \A c \in callbacks :
    \E i \in DOMAIN queue[c.user] :
      queue[c.user][i].id = c.id /\ queue[c.user][i].n = c.n

(* On a call whose handshake is complete, the results to be read and the   *)
(* requests to be answered, with the refused one between them, are the     *)
(* pipeline, batch for batch.                                              *)
Matched ==
  LET refused == IF ended THEN 1 ELSE 0 IN
    shake = "complete" =>
      /\ Within(down, pipeline, 0)
      /\ Within(up, pipeline, Len(down) + refused)
      /\ Len(down) + refused + Len(up) = Len(pipeline)

(* What the stream may be doing.                                           *)
Coherent ==
  /\ stream = "open" <=> shake # "no"
  /\ shake # "complete" => up = << >> /\ down = << >> /\ ~ended
  /\ pipeline # << >> => IsStarted(stream)
  /\ stream \in {"starting", "backoff"} \/ shake \in {"asked", "answered"}
       => pipeline # << >>
  /\ shake = "complete" => token = "given"
  /\ token = saved[user]
  /\ idle <=> (shake = "complete" /\ pipeline = << >>)

(* Results stand for writes carried out, a refusal for one the server has  *)
(* seen.                                                                   *)
Answered ==
  /\ \A i \in DOMAIN down : down[i].n \in applied
  /\ applied \subseteq reached
  /\ ended => pipeline[Len(down) + 1].n \in reached

(* How queue, pipeline and call fit together.                              *)
Paired ==
  /\ TypeOK
  /\ \A u \in User : Ascending(queue[u])
  /\ Filled /\ Awaited /\ Coherent /\ Matched /\ Answered

(* The batches still in a queue, and those of them that the server has not *)
(* dealt with on the present call.                                         *)
Rest(q, k) == {q[i] : i \in {j \in DOMAIN q : j > k}}

Gone == Len(down) + (IF ended THEN 1 ELSE 0)

Pending(u) == Rest(queue[u], 0)

Left(u) == Rest(queue[u], IF u = user THEN Gone ELSE 0)

(* What decides the outcome of a sequence of writes: of those that make or *)
(* remove the document the last one, of those that set its value the last  *)
(* one, and how many increments come after the former.                     *)
Makers  == {"set", "delete"}
Setters == {"set", "update"}

NoneOf(S, ops) == \A b \in S : b.op \notin ops

LastOf(b, S, ops) == /\ b \in S /\ b.op \in ops
                     /\ \A c \in S : c.op \in ops => c.n <= b.n

LikesAfter(S, n) == {c.n : c \in {b \in S : b.op = "like" /\ b.n > n}}

Sparse(d) == d.val = 0 => d.likes = 0

(* The pending writes "all", carried out in full, lead to document w, and  *)
(* those "left" lead there from document d; where they only increment, not *)
(* below it, and exactly there as long as no call was lost.                *)
LeadsTo(all, left, d, w, losses) ==
  /\ Sparse(d) /\ Sparse(w)
  /\ \A b \in all : LastOf(b, all, Makers) => (b.op = "set" <=> w.val # 0)
  /\ NoneOf(left, Makers) => (d.val # 0 <=> w.val # 0)
  /\ w.val # 0 =>
       /\ \A b \in all : LastOf(b, all, Setters) => w.val = b.n
       /\ \A b \in all : LastOf(b, all, Makers) =>
            w.likes = Cardinality(LikesAfter(all, b.n))
       /\ NoneOf(left, Setters) => d.val = w.val
       /\ NoneOf(left, Makers) =>
            LET likes == d.likes + Cardinality(LikesAfter(left, 0)) IN
              w.likes <= likes /\ (losses = 0 => w.likes = likes)

(* Each document is on its way to what its user's writes make of it, and   *)
(* only a missing document is refused to.                                  *)
Settling ==
  /\ \A u \in User :
       LeadsTo(Pending(u), Left(u), docs[u], wanted[u], faults)
  /\ ended => docs[user].val = 0

(* The inductive invariant.                                                *)
IInv == Paired /\ Settling

-----------------------------------------------------------------------------
(* A callback is told of success only if the server has carried out that   *)
(* very write, and of failure only if the server has dealt with it, though *)
(* a response names no batch and is matched by order alone                 *)
(* (OnWriteStreamMutationResult, HandleWriteError, NotifyUser).            *)
ToldTruth ==
  \A i \in DOMAIN told :
    told[i].n \in (IF told[i].ok THEN applied ELSE reached)

(* The assertions of the code that abort the app: a result or a refusal    *)
(* finds a batch in the pipeline, the batch it removes is in the queue,    *)
(* and the idle timer never stops a stream that is still needed.           *)
NoHardAssert ==
  /\ down # << >> \/ ended => pipeline # << >>
  /\ pipeline # << >> => \E i \in DOMAIN queue[user] : queue[user][i] = pipeline[1]
  /\ idle => pipeline = << >>

(* Whatever calls broke, restarts and sign-ins came between: once a user's *)
(* queue is empty, the server's document is as if each of the user's       *)
(* writes had been carried out once, in the order of issue; except that    *)
(* an increment, which the app issues for each like, may count twice when  *)
(* its acknowledgement was lost, and never counts less than once.          *)
Converges ==
  \A u \in User : queue[u] = << >> =>
    /\ docs[u].val = wanted[u].val
    /\ docs[u].likes >= wanted[u].likes
    /\ faults = 0 => docs[u] = wanted[u]

(* The writes of a user who stays signed in all reach an outcome.          *)
Drains == \A u \in User : <>[](user = u) => []<>(queue[u] = << >>)

(* The queue, its pipeline and the stream implement the outbox.            *)
O == INSTANCE Outbox WITH
       box     <- [u \in User |-> [i \in DOMAIN queue[u] |-> queue[u][i].n]],
       waiting <- {c.n : c \in callbacks},
       told    <- [i \in DOMAIN told |-> told[i].n]

ImplementsOutbox == O!Spec
=============================================================================
