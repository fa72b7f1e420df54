------------------------------ MODULE MediaCache ------------------------------
(***************************************************************************)
(* The on-disk media cache of the backend (backend/app/media_cache.py):    *)
(* the LRU index, the files, the streaming fill of originals with one      *)
(* leader and its followers (stream_or_cached), and the locked fill of     *)
(* thumbnails (get_or_fill).                                               *)
(*                                                                         *)
(* The backend is one asyncio loop, so the code between two awaits is one  *)
(* action here.  A request is a slot that serves one HTTP request after    *)
(* another; pc says at which await its handler (or the body generator it   *)
(* returned) is suspended:                                                 *)
(*                                                                         *)
(*   idle      no request                                                  *)
(*   wait      follower in done.wait(); woken: the event is set            *)
(*   lock      in the queue of the thumbnail's asyncio.Lock                *)
(*   send      awaiting client.send; the request talks to Immich           *)
(*   ready     StreamingResponse returned, body generator not started      *)
(*   body      reading chunks from Immich into the temporary file          *)
(*   yield     a chunk of an original is offered to the client             *)
(*   closeSend error status, awaiting response.aclose()                    *)
(*   closeOk   file committed, awaiting response.aclose()                  *)
(*   closeErr  body or commit failed, awaiting response.aclose()           *)
(*   serve     a hit: FileResponse returned, file not opened yet           *)
(*   gone      left without _finish_fill: its generator was dropped before *)
(*             it started, or aclose() failed in the generator's finally   *)
(***************************************************************************)
EXTENDS Naturals, Sequences, FiniteSets, SequencesExt

CONSTANTS
  Requests,      \* request slots
  Originals,     \* keys "o:<asset>", filled by stream_or_cached
  Thumbs,        \* keys "a:..." and "p:...", filled by get_or_fill
  Videos,        \* the originals whose content-type is video/*
  NChunks,       \* chunks of a complete body
  Bytes(_),      \* bytes of a set of complete files
  MaxBytes,      \* MediaCache.max_bytes
  Faults,        \* which faults of the environment may happen
  None

Keys == Originals \cup Thumbs

\* "close": response.aclose() raises, or the task is cancelled while it runs.
FaultKinds == {"cancel", "drop", "close", "commit", "unlink", "crash"}

ASSUME SetsAssumption ==
  /\ Originals \cap Thumbs = {}
  /\ Videos \subseteq Originals
  /\ None \notin Requests \cup Keys \cup Nat
  /\ Faults \subseteq FaultKinds

ASSUME FiniteAssumption == IsFiniteSet(Keys)

ASSUME NumbersAssumption == NChunks \in Nat /\ MaxBytes \in Nat

\* What the proofs need of SUM(size_bytes): more files, no fewer bytes.
ASSUME BytesAssumption ==
  /\ Bytes({}) = 0
  /\ \A S \in SUBSET Keys : Bytes(S) \in Nat
  /\ \A S, T \in SUBSET Keys : S \subseteq T => Bytes(S) <= Bytes(T)

(* A definition named X_Y is X with the bug Y, for the mutation runs only. *)

VARIABLES
  pc,            \* [Requests -> where the request is suspended]
  key,           \* [Requests -> the key it asked for]
  done,          \* [Requests -> the event it holds, named by the leader that made it]
  got,           \* [Requests -> chunks in its temporary file, None without one]
  fills,         \* _fills: [Keys -> the registered event, None if absent]
  lockQ,         \* _inflight: [Keys -> the lock's holder and its waiters, FIFO]
  rows,          \* the keys with a row in the entries table
  lastAccess,    \* [Keys -> rank of last_access: only the order matters, and
                 \* that of keys never used does not, so it starts as any]
  file,          \* [Keys -> chunks in the file at _path_for(key), None if no file]
  litter         \* keys in whose directory a temporary file has no writer left

store == <<rows, lastAccess, file>>
vars == <<pc, key, done, got, fills, lockQ, rows, lastAccess, file, litter>>

Pcs == {"idle", "wait", "woken", "lock", "send", "ready", "body", "yield",
        "closeSend", "closeOk", "closeErr", "serve", "gone"}

\* The states in which a request holds a connection to Immich for its key.
Upstream == {"send", "ready", "body", "yield", "closeSend", "closeOk", "closeErr"}

Init ==
  /\ pc = [r \in Requests |-> "idle"]
  /\ key = [r \in Requests |-> None]
  /\ done = [r \in Requests |-> None]
  /\ got = [r \in Requests |-> None]
  /\ fills = [k \in Keys |-> None]
  /\ lockQ = [k \in Keys |-> << >>]
  /\ rows = {}
  /\ lastAccess \in Injection(Keys, 1..Cardinality(Keys))
  /\ file = [k \in Keys |-> None]
  /\ litter = {}

-----------------------------------------------------------------------------
(* The index: lookup, _commit_file and _evict.                             *)

Hit(k) == k \in rows /\ file[k] # None

\* last_access = now: k becomes the newest, the order of the others stays.
Touched(k) ==
  [j \in Keys |-> IF j = k THEN Cardinality(Keys)
                  ELSE IF lastAccess[j] > lastAccess[k] THEN lastAccess[j] - 1
                  ELSE lastAccess[j]]

\* A hit refreshes last_access; a miss deletes a row whose file is gone.
LookupHit(k) ==
  /\ Hit(k)
  /\ lastAccess' = Touched(k)
  /\ UNCHANGED <<rows, file>>

LookupMiss(k) ==
  /\ ~Hit(k)
  /\ rows' = rows \ {k}
  /\ UNCHANGED <<lastAccess, file>>

\* int(max_bytes * _EVICT_WATERMARK)
Target == (9 * MaxBytes) \div 10

Older(R, v) == {w \in R : lastAccess[w] < lastAccess[v]}

Evicted_KeptNotCounted(R, keep) ==
  LET others == R \ {keep}
  IN  IF Bytes(others) <= MaxBytes THEN {}
      ELSE {v \in others : Bytes(others \ Older(others, v)) > Target}

\* It forgets to stop at the target.
Evicted_All(R, keep) == IF Bytes(R) <= MaxBytes THEN {} ELSE R \ {keep}

\* The rows _evict walks over before the total is down to the target: v is
\* among them iff the total is still above it once every older one is gone.
Evicted(R, keep) ==
  IF Bytes(R) <= MaxBytes THEN {}
  ELSE LET others == R \ {keep}
       IN  {v \in others : Bytes(R \ Older(others, v)) > Target}

Commit_WithoutUnlink(k, n, stuck) ==
  /\ stuck = {}
  /\ rows' = (rows \cup {k}) \ Evicted(rows \cup {k}, k)
  /\ lastAccess' = Touched(k)
  /\ file' = [file EXCEPT ![k] = n]

\* os.replace, the upsert and _evict; the unlink of a file in stuck failed
\* with an OSError, which _evict suppresses.
Commit(k, n, stuck) ==
  LET gone == Evicted(rows \cup {k}, k)
  IN  /\ stuck \subseteq gone
      /\ stuck # {} => "unlink" \in Faults
      /\ rows' = (rows \cup {k}) \ gone
      /\ lastAccess' = Touched(k)
      /\ file' = [j \in Keys |-> IF j = k THEN n
                                 ELSE IF j \in gone \ stuck THEN None
                                 ELSE file[j]]

\* A commit that does not come to its end: it stops after os.replace and before
\* the row, or after the row's own commit and before that of _evict, whose
\* DELETEs are rolled back while the files it unlinked, oldest first, are gone.
HalfCommit(k, n) ==
  \/ /\ file' = [file EXCEPT ![k] = n]
     /\ UNCHANGED <<rows, lastAccess>>
  \/ LET victims == Evicted(rows \cup {k}, k)
     IN  \E gone \in SUBSET victims :
           /\ "unlink" \notin Faults => \A v \in gone : Older(victims, v) \subseteq gone
           /\ rows' = rows \cup {k}
           /\ lastAccess' = Touched(k)
           /\ file' = [j \in Keys |-> IF j = k THEN n
                                      ELSE IF j \in gone THEN None
                                      ELSE file[j]]

-----------------------------------------------------------------------------
(* The end of a fill: _finish_fill for originals, the lock for thumbnails. *)

Unregistered_Any(r) == [fills EXCEPT ![key[r]] = None]

\* _finish_fill pops the event only if it is still the registered one, ...
Unregistered(r) ==
  IF done[r] # None /\ fills[key[r]] = done[r]
  THEN [fills EXCEPT ![key[r]] = None] ELSE fills

Released_WithoutSet(r, next) == [pc EXCEPT ![r] = next]

\* ... and done.set() makes its waiters runnable; r itself goes on to next.
Released(r, next) ==
  [q \in Requests |-> IF q = r THEN next
                      ELSE IF pc[q] = "wait" /\ done[r] # None /\ done[q] = done[r]
                           THEN "woken"
                      ELSE pc[q]]

Without(k, r) == RemoveAt(lockQ[k], CHOOSE i \in DOMAIN lockQ[k] : lockQ[k][i] = r)

\* r's fill is over; the handler returns or raises (next = "idle"), or a
\* thumbnail goes on to serve the file it stored (next = "serve").
FillEnds(r, next) ==
  /\ pc' = Released(r, next)
  /\ fills' = Unregistered(r)
  /\ lockQ' = IF key[r] \in Thumbs THEN [lockQ EXCEPT ![key[r]] = Without(key[r], r)]
              ELSE lockQ
  /\ key' = IF next = "idle" THEN [key EXCEPT ![r] = None] ELSE key
  /\ done' = [done EXCEPT ![r] = None]
  /\ got' = [got EXCEPT ![r] = None]

Litterers(S) == {key[r] : r \in {q \in S : got[q] # None}}

\* A generator ends without _finish_fill: the event of a leader stays in _fills,
\* unset, and nobody has it; a temporary file it has is not unlinked.
LeavesBehind(r) ==
  /\ pc' = [pc EXCEPT ![r] = IF done[r] = None THEN "idle" ELSE "gone"]
  /\ key' = [key EXCEPT ![r] = IF done[r] = None THEN None ELSE @]
  /\ got' = [got EXCEPT ![r] = None]
  /\ litter' = litter \cup Litterers({r})
  /\ UNCHANGED <<done, fills, lockQ>>

-----------------------------------------------------------------------------
(* Entering the cache: the part of stream_or_cached and get_or_fill before *)
(* the first await.                                                        *)

EnterHit(r, k) ==
  /\ pc[r] = "idle"
  /\ LookupHit(k)
  /\ pc' = [pc EXCEPT ![r] = "serve"]
  /\ key' = [key EXCEPT ![r] = k]
  /\ UNCHANGED <<done, got, fills, lockQ, litter>>

EnterLeader_Always(r, k) ==
  /\ pc[r] = "idle" /\ k \in Originals
  /\ LookupMiss(k)
  /\ fills' = [fills EXCEPT ![k] = r]
  /\ pc' = [pc EXCEPT ![r] = "send"]
  /\ key' = [key EXCEPT ![r] = k]
  /\ done' = [done EXCEPT ![r] = r]
  /\ UNCHANGED <<got, lockQ, litter>>

EnterLeader(r, k) ==
  /\ pc[r] = "idle" /\ k \in Originals
  /\ LookupMiss(k)
  /\ fills[k] = None
  /\ fills' = [fills EXCEPT ![k] = r]
  /\ pc' = [pc EXCEPT ![r] = "send"]
  /\ key' = [key EXCEPT ![r] = k]
  /\ done' = [done EXCEPT ![r] = r]
  /\ UNCHANGED <<got, lockQ, litter>>

EnterFollower(r, k) ==
  /\ pc[r] = "idle" /\ k \in Originals
  /\ LookupMiss(k)
  /\ fills[k] # None
  /\ pc' = [pc EXCEPT ![r] = "wait"]
  /\ key' = [key EXCEPT ![r] = k]
  /\ done' = [done EXCEPT ![r] = fills[k]]
  /\ UNCHANGED <<got, fills, lockQ, litter>>

EnterLock(r, k) ==
  /\ pc[r] = "idle" /\ k \in Thumbs
  /\ LookupMiss(k)
  /\ lockQ' = [lockQ EXCEPT ![k] = Append(@, r)]
  /\ pc' = [pc EXCEPT ![r] = "lock"]
  /\ key' = [key EXCEPT ![r] = k]
  /\ UNCHANGED <<done, got, fills, litter>>

\* A woken follower looks again; on a miss it fetches on its own, with no event.
Wake(r) ==
  /\ pc[r] = "woken"
  /\ \/ LookupHit(key[r]) /\ pc' = [pc EXCEPT ![r] = "serve"]
     \/ LookupMiss(key[r]) /\ pc' = [pc EXCEPT ![r] = "send"]
  /\ done' = [done EXCEPT ![r] = None]
  /\ UNCHANGED <<key, got, fills, lockQ, litter>>

Locked_Always(r) ==
  /\ pc[r] = "lock"
  /\ \/ LookupHit(key[r]) /\ FillEnds(r, "serve")
     \/ /\ LookupMiss(key[r])
        /\ pc' = [pc EXCEPT ![r] = "send"]
        /\ UNCHANGED <<key, done, got, fills, lockQ>>
  /\ UNCHANGED litter

\* The head of the queue holds the lock: it looks again, and fills or leaves.
Locked(r) ==
  /\ pc[r] = "lock"
  /\ Head(lockQ[key[r]]) = r
  /\ \/ /\ LookupHit(key[r])
        /\ FillEnds(r, "serve")
     \/ /\ LookupMiss(key[r])
        /\ pc' = [pc EXCEPT ![r] = "send"]
        /\ UNCHANGED <<key, done, got, fills, lockQ>>
  /\ UNCHANGED litter

-----------------------------------------------------------------------------
(* Talking to Immich: _stream_miss, and fill_http for thumbnails.          *)

SendOk(r) ==
  /\ pc[r] = "send" /\ key[r] \notin Videos
  /\ \/ key[r] \in Originals /\ pc' = [pc EXCEPT ![r] = "ready"] /\ UNCHANGED got
     \/ /\ key[r] \in Thumbs
        /\ pc' = [pc EXCEPT ![r] = "body"]
        /\ got' = [got EXCEPT ![r] = 0]
  /\ UNCHANGED <<key, done, fills, lockQ, store, litter>>

\* A video ends the fill at once and passes through, past the cache.
SendVideo(r) ==
  /\ pc[r] = "send" /\ key[r] \in Videos
  /\ FillEnds(r, "idle")
  /\ UNCHANGED <<store, litter>>

\* An error status: the upstream response is closed first.
SendStatus(r) ==
  /\ pc[r] = "send"
  /\ pc' = [pc EXCEPT ![r] = "closeSend"]
  /\ UNCHANGED <<key, done, got, fills, lockQ, store, litter>>

SendRaises_Forgets(r) ==
  /\ pc[r] = "send"
  /\ pc' = [pc EXCEPT ![r] = "idle"]
  /\ key' = [key EXCEPT ![r] = None]
  /\ done' = [done EXCEPT ![r] = None]
  /\ UNCHANGED <<got, fills, lockQ, store, litter>>

\* client.send raises: no connection, a timeout, or the task is cancelled.
SendRaises(r) ==
  /\ pc[r] = "send"
  /\ FillEnds(r, "idle")
  /\ UNCHANGED <<store, litter>>

-----------------------------------------------------------------------------
(* The body: _tee_and_cache for originals, store_stream for thumbnails.    *)

StartBody(r) ==
  /\ pc[r] = "ready"
  /\ pc' = [pc EXCEPT ![r] = "body"]
  /\ got' = [got EXCEPT ![r] = 0]
  /\ UNCHANGED <<key, done, fills, lockQ, store, litter>>

\* The response is dropped before its generator is started (the client left),
\* or mkdir raises before the try: the generator's finally never runs.
Drop(r) ==
  /\ "drop" \in Faults
  /\ pc[r] = "ready"
  /\ LeavesBehind(r)
  /\ UNCHANGED store

\* Immich sends a chunk; the generator of an original yields it to the client.
Chunk(r) ==
  /\ pc[r] = "body" /\ got[r] < NChunks
  /\ got' = [got EXCEPT ![r] = @ + 1]
  /\ pc' = IF key[r] \in Originals THEN [pc EXCEPT ![r] = "yield"] ELSE pc
  /\ UNCHANGED <<key, done, fills, lockQ, store, litter>>

\* The client has read the chunk, in its own time: no timeout bounds it, ...
ClientReads(r) ==
  /\ pc[r] = "yield"
  /\ pc' = [pc EXCEPT ![r] = "body"]
  /\ UNCHANGED <<key, done, got, fills, lockQ, store, litter>>

\* ... or it leaves, and the generator is closed at its yield.
ClientLeaves(r) ==
  /\ pc[r] = "yield"
  /\ pc' = [pc EXCEPT ![r] = "closeErr"]
  /\ UNCHANGED <<key, done, got, fills, lockQ, store, litter>>

Complete_Early(r) ==
  /\ pc[r] = "body"
  /\ \E stuck \in SUBSET rows : Commit(key[r], got[r], stuck)
  /\ pc' = [pc EXCEPT ![r] = "closeOk"]
  /\ got' = [got EXCEPT ![r] = None]
  /\ UNCHANGED <<key, done, fills, lockQ, litter>>

Complete(r) ==
  /\ pc[r] = "body" /\ got[r] = NChunks
  /\ \E stuck \in SUBSET rows : Commit(key[r], got[r], stuck)
  /\ pc' = [pc EXCEPT ![r] = "closeOk"]
  /\ got' = [got EXCEPT ![r] = None]
  /\ UNCHANGED <<key, done, fills, lockQ, litter>>

\* os.replace succeeded and the index raised, in the upsert or in _evict: the
\* temporary file is no more, what is stored stays half done.
CommitRaises(r) ==
  /\ "commit" \in Faults
  /\ pc[r] = "body" /\ got[r] = NChunks
  /\ HalfCommit(key[r], got[r])
  /\ pc' = [pc EXCEPT ![r] = "closeErr"]
  /\ got' = [got EXCEPT ![r] = None]
  /\ UNCHANGED <<key, done, fills, lockQ, litter>>

\* Reading or writing raises, or the task is cancelled.  store_stream unlinks
\* its temporary file before the response is closed, _tee_and_cache after.
BodyRaises(r) ==
  /\ pc[r] = "body"
  /\ pc' = [pc EXCEPT ![r] = "closeErr"]
  /\ got' = IF key[r] \in Thumbs THEN [got EXCEPT ![r] = None] ELSE got
  /\ UNCHANGED <<key, done, fills, lockQ, store, litter>>

\* A CancelledError passes store_stream's "except Exception": the file stays.
BodyCancelled(r) ==
  /\ "cancel" \in Faults
  /\ pc[r] = "body" /\ key[r] \in Thumbs
  /\ pc' = [pc EXCEPT ![r] = "closeErr"]
  /\ got' = [got EXCEPT ![r] = None]
  /\ litter' = litter \cup {key[r]}
  /\ UNCHANGED <<key, done, fills, lockQ, store>>

\* aclose() returned: a thumbnail is served, an original was already sent.
CloseOk(r) ==
  /\ pc[r] = "closeOk"
  /\ FillEnds(r, IF key[r] \in Thumbs THEN "serve" ELSE "idle")
  /\ UNCHANGED <<store, litter>>

CloseErr(r) ==
  /\ pc[r] \in {"closeSend", "closeErr"}
  /\ FillEnds(r, "idle")
  /\ UNCHANGED <<store, litter>>

\* aclose() raises or is cancelled.  A thumbnail gives its lock back, and the
\* except clause of stream_or_cached ends a fill that failed before the body;
\* in the finally of _tee_and_cache nothing after the await is run.
CloseFails(r) ==
  /\ "close" \in Faults
  /\ \/ /\ \/ pc[r] = "closeSend"
           \/ pc[r] \in {"closeOk", "closeErr"} /\ key[r] \in Thumbs
        /\ FillEnds(r, "idle")
        /\ UNCHANGED litter
     \/ /\ pc[r] \in {"closeOk", "closeErr"} /\ key[r] \in Originals
        /\ LeavesBehind(r)
  /\ UNCHANGED store

-----------------------------------------------------------------------------
(* Serving a hit, cancellation of a waiting task, and a restart.           *)

\* FileResponse opens the file now; it raises if the file has gone.
Serve(r) ==
  /\ pc[r] = "serve"
  /\ pc' = [pc EXCEPT ![r] = "idle"]
  /\ key' = [key EXCEPT ![r] = None]
  /\ UNCHANGED <<done, got, fills, lockQ, store, litter>>

Cancel_StaysQueued(r) ==
  /\ "cancel" \in Faults
  /\ pc[r] \in {"wait", "woken", "lock"}
  /\ pc' = [pc EXCEPT ![r] = "idle"]
  /\ key' = [key EXCEPT ![r] = None]
  /\ done' = [done EXCEPT ![r] = None]
  /\ UNCHANGED <<got, fills, lockQ, store, litter>>

Cancel(r) ==
  /\ "cancel" \in Faults
  /\ pc[r] \in {"wait", "woken", "lock"}
  /\ pc' = [pc EXCEPT ![r] = "idle"]
  /\ key' = [key EXCEPT ![r] = None]
  /\ done' = [done EXCEPT ![r] = None]
  /\ lockQ' = IF pc[r] = "lock" THEN [lockQ EXCEPT ![key[r]] = Without(key[r], r)]
              ELSE lockQ
  /\ UNCHANGED <<got, fills, store, litter>>

\* The process dies: memory is lost, temporary files are left behind.
Restart ==
  /\ pc' = [r \in Requests |-> "idle"]
  /\ key' = [r \in Requests |-> None]
  /\ done' = [r \in Requests |-> None]
  /\ got' = [r \in Requests |-> None]
  /\ fills' = [k \in Keys |-> None]
  /\ lockQ' = [k \in Keys |-> << >>]

Crash ==
  /\ "crash" \in Faults
  /\ Restart
  /\ litter' = litter \cup Litterers(Requests)
  /\ UNCHANGED store

\* ... or it dies inside the commit, which leaves it half done.
CrashInCommit(r) ==
  /\ "crash" \in Faults
  /\ pc[r] = "body" /\ got[r] = NChunks
  /\ Restart
  /\ litter' = litter \cup Litterers(Requests \ {r})
  /\ HalfCommit(key[r], got[r])

-----------------------------------------------------------------------------
Enter(r) ==
  \E k \in Keys : EnterHit(r, k) \/ EnterLeader(r, k) \/ EnterFollower(r, k)
                  \/ EnterLock(r, k)

\* What the event loop and Immich bring to an end on their own.
Progress(r) ==
  \/ Wake(r) \/ Locked(r)
  \/ SendOk(r) \/ SendVideo(r) \/ SendStatus(r) \/ SendRaises(r)
  \/ Chunk(r) \/ Complete(r) \/ BodyRaises(r)
  \/ CloseOk(r) \/ CloseErr(r) \/ Serve(r)

\* What waits for the client to take the head of the response or a chunk.
Client(r) == StartBody(r) \/ ClientReads(r) \/ ClientLeaves(r)

Fault(r) ==
  \/ Drop(r) \/ CommitRaises(r) \/ BodyCancelled(r) \/ CloseFails(r)
  \/ Cancel(r) \/ CrashInCommit(r)

Next ==
  \/ \E r \in Requests : Enter(r) \/ Progress(r) \/ Client(r) \/ Fault(r)
  \/ Crash

\* A ready task is run, and Immich answers or httpx's timeout raises; of the
\* clients nothing is assumed.
Fairness == \A r \in Requests : WF_vars(Progress(r))

Spec == Init /\ [][Next]_vars

FairSpec == Spec /\ Fairness

-----------------------------------------------------------------------------
(* Properties.                                                             *)

\* The type invariant.
TypeOK ==
  /\ pc \in [Requests -> Pcs]
  /\ key \in [Requests -> Keys \cup {None}]
  /\ done \in [Requests -> Requests \cup {None}]
  /\ got \in [Requests -> 0..NChunks \cup {None}]
  /\ fills \in [Keys -> Requests \cup {None}]
  /\ lockQ \in [Keys -> Seq(Requests)]
  /\ rows \subseteq Keys
  /\ lastAccess \in [Keys -> Nat]
  /\ file \in [Keys -> 0..NChunks \cup {None}]
  /\ litter \subseteq Keys

\* No partial body is ever at a path that lookup could serve, whatever fails
\* or crashes while it is written ("No partial original may become a valid
\* cache entry"): a file is absent or has all its chunks.
NoPartialFile == \A k \in Keys : file[k] \in {None, NChunks}

\* A registered fill belongs to the request that made the event, which is still
\* working on it or is gone.  A fill is left behind in two ways only, a response
\* dropped before its generator starts and an aclose() that fails in the finally
\* of _tee_and_cache, before its _finish_fill: no other error or cancellation,
\* before the body or in it, forgets the fill.
FillHasOwner ==
  \A k \in Keys : fills[k] # None =>
    LET r == fills[k]
    IN  key[r] = k /\ done[r] = r /\ pc[r] \in Upstream \cup {"gone"}

\* No wake-up is lost: a follower waits for the event that is registered for
\* its key now, never for one that was popped or replaced before it woke.
WaitsForRegistered ==
  \A r \in Requests : pc[r] = "wait" =>
    key[r] \in Originals /\ done[r] # None /\ fills[key[r]] = done[r]

\* At most one request fetches a thumbnail from Immich: single_flight.
ThumbSingleFlight ==
  \A r, q \in Requests :
    /\ pc[r] \in Upstream /\ pc[q] \in Upstream
    /\ key[r] = key[q] /\ key[r] \in Thumbs
    => r = q

\* The index and the files agree: lookup's healing is for crashes only.
RowsMatchFiles == rows = {k \in Keys : file[k] # None}

\* The cap: after each step the index is within max_bytes, or one file that is
\* too large on its own is all that is left.
WithinCap == Bytes(rows) <= MaxBytes \/ \E k \in Keys : rows = {k}

\* Eviction is LRU: what a step removes from the index was used before
\* everything it leaves there.
EvictsOldest ==
  [][\A v \in rows \ rows', w \in rows' : lastAccess'[v] < lastAccess'[w]]_vars

\* ... and it takes no more than it must, whatever fails or crashes: a row goes
\* though its file is there only when the index is above the cap, it is older
\* than all that stay, and to keep it with the removed rows that were used after
\* it would be above the target.
EvictsNoMore ==
  [][\A v \in rows \ rows' : file[v] # None =>
       /\ Bytes(rows \cup rows') > MaxBytes
       /\ \A w \in rows' : lastAccess'[v] < lastAccess'[w]
       /\ Bytes(rows' \cup {w \in rows \ rows' : lastAccess[w] >= lastAccess[v]})
            > Target]_vars

\* Nobody waits for a request that has left, those excepted that are gone (see
\* FillHasOwner): the leader a follower waits for is at work on the same key, and
\* so is the holder of the lock a request is queued for, or it is about to take
\* it.  A thumbnail's holder is never gone.
WaitersAreServed ==
  \A r \in Requests :
    /\ pc[r] = "wait" => /\ pc[done[r]] \in Upstream \cup {"gone"}
                         /\ key[done[r]] = key[r]
    /\ pc[r] = "lock" =>
         LET holder == Head(lockQ[key[r]])
         IN  key[holder] = key[r] /\ pc[holder] \in Upstream \cup {"lock"}

\* The refinement: whatever fails, is cancelled or crashes, the events and the
\* table of fills coalesce the requests for an original as SingleFlight says.
Following == [k \in Keys |-> {r \in Requests : pc[r] = "wait" /\ key[r] = k}]

F == INSTANCE SingleFlight WITH
       Callers <- Requests, Flights <- Keys, Nobody <- None,
       leader <- fills, waiting <- Following

RefinesSingleFlight == F!Spec

\* No client stops reading for ever and stays: _tee_and_cache advances only as
\* its client takes what it yields, and no timeout bounds that.
ClientsMove == \A r \in Requests : []<>(pc[r] \notin {"ready", "yield"})

\* "Aborts must release ... server cache waiters": a follower is woken.
FollowersReleased ==
  ClientsMove => \A r \in Requests : pc[r] = "wait" ~> pc[r] # "wait"

\* r is gone, or waits for the event of a request that is.
Stranded(r) == pc[r] = "gone" \/ (pc[r] = "wait" /\ pc[done[r]] = "gone")

\* If no client stalls, every request is answered, followers and lock waiters
\* with it, unless the leader it waits for is gone.
EveryRequestEnds ==
  ClientsMove =>
    \A r \in Requests : pc[r] # "idle" ~> pc[r] = "idle" \/ Stranded(r)

-----------------------------------------------------------------------------
(* The inductive invariant of the proofs in MediaCacheProofs.              *)

\* What a request holds at each await: a key unless idle, an event only as a
\* follower or a leader, a temporary file while it reads the body.
RequestInv ==
  \A r \in Requests :
    /\ pc[r] = "idle" => key[r] = None /\ done[r] = None
    /\ pc[r] # "idle" => key[r] \in Keys
    /\ pc[r] \in {"wait", "woken", "ready"} => key[r] \in Originals
    /\ pc[r] = "lock" => key[r] \in Thumbs
    /\ pc[r] \in {"lock", "serve"} => done[r] = None
    /\ pc[r] \in {"body", "yield"} => got[r] \in 0..NChunks
    /\ pc[r] \notin {"body", "yield", "closeErr"} => got[r] = None
    /\ pc[r] \in {"yield", "gone"} => key[r] \in Originals
    /\ pc[r] = "gone" => done[r] # None

\* The registered events are exactly the ones of the leaders at work, or gone.
LeaderInv ==
  /\ \A k \in Keys : fills[k] # None =>
       /\ k \in Originals
       /\ key[fills[k]] = k /\ done[fills[k]] = fills[k]
       /\ pc[fills[k]] \in Upstream \cup {"gone"}
  /\ \A r \in Requests : pc[r] \in Upstream \cup {"gone"} /\ done[r] # None =>
       done[r] = r /\ fills[key[r]] = r

\* Whoever waits for or holds a thumbnail's lock is in its queue, and the one
\* that fetches is the head.
QueueInv ==
  \A r \in Requests : key[r] \in Thumbs =>
    /\ pc[r] \in Upstream \cup {"lock"} =>
         \E i \in DOMAIN lockQ[key[r]] : lockQ[key[r]][i] = r
    /\ pc[r] \in Upstream => lockQ[key[r]][1] = r

CacheInv ==
  /\ TypeOK
  /\ NoPartialFile
  /\ RequestInv
  /\ LeaderInv
  /\ WaitsForRegistered
  /\ QueueInv

\* What the eviction theorems add: last_access is an order of the keys, ...
AccessOrder ==
  /\ \A k \in Keys : lastAccess[k] \in 1..Cardinality(Keys)
  /\ \A i, j \in Keys : lastAccess[i] = lastAccess[j] => i = j

\* ... and where no commit stops half-way, a row has its file.
EvictInv == AccessOrder /\ \A k \in rows : file[k] # None

\* What the waiters' theorem adds: a lock's queue holds live requests for that
\* thumbnail only, each of them once.
QueueLive ==
  \A k \in Keys : \A i \in DOMAIN lockQ[k] :
    /\ k \in Thumbs /\ key[lockQ[k][i]] = k
    /\ pc[lockQ[k][i]] \in Upstream \cup {"lock"}
    /\ \A j \in DOMAIN lockQ[k] : lockQ[k][j] = lockQ[k][i] => j = i
=============================================================================
