------------------------------ MODULE MultiSync ------------------------------
(* Capability negotiation and the synchronisation of several stores in one     *)
(* call: a caller negotiates a handshake per store, passes an ordered list of  *)
(* targets, and sync_stores checks all of them before it lets any transfer.    *)
(* Between two steps, each under one store's root lock, other processes        *)
(* synchronise the same stores and fill the proof cache.                       *)
(*                                                                             *)
(* A checkpoint is the accepted revision of its store and the accepted tip of  *)
(* its history, which may move alone; the trust binding and the approved       *)
(* remote never change, and a request equals them (auth) or does not.  A       *)
(* capability or projection is a number; the ones in Known are implemented.    *)
EXTENDS Integers, Sequences, Functions

CONSTANTS
    Store,          \* logical stores, in their order
    Known,          \* S5_CAPABILITIES and S5_PROJECTIONS
    SyncCapability, \* GIT_UNION_CAS_CAPABILITY
    Negotiations,   \* arguments of negotiate_handshake: store, trust, local and remote sets
    Requests,       \* the lists of targets that callers build
    MaxTargets,     \* MAX_MULTI_SYNC_TARGETS
    MaxEntries,     \* MAX_CAPABILITY_SET_ENTRIES
    MaxTip          \* bound on the tips of one store's history

\* What a caller passes for one store: its identity, its directory, whether the request
\* equals the checkpoint's authority, and the store whose handshake it takes.
TargetType == [expected : Nat, store : Store, auth : BOOLEAN, token : Store]

ASSUME MultiAssumption ==
    /\ Store \subseteq Nat /\ Known \subseteq Nat /\ SyncCapability \in Known /\ MaxTip \in Nat
    /\ Requests \subseteq Seq(TargetType)
    /\ \A n \in Negotiations : n.store \in Store

\* Identifiers are compared as numbers.
ASSUME SidesAssumption ==
    \A n \in Negotiations : \A side \in {n.local, n.remote} :
        {side.reqCaps, side.reqProj, side.supCaps, side.supProj} \subseteq Seq(Nat)

VARIABLES
    cp,             \* store -> its durable checkpoint, or NoCheckpoint
    cache,          \* store and revision that the entries of the proof cache depend on
    token,          \* store -> handshake that the caller holds, or NoToken
    neg,            \* the negotiation that has just made a handshake
    pc,             \* step of sync_stores
    targets,        \* its argument
    preflight,      \* the checkpoints that it has compared
    moves,          \* checkpoints from which its transfers started
    error,          \* its error, or Ok
    results         \* its results

vars == <<cp, cache, token, neg, pc, targets, preflight, moves, error, results>>
callVars == <<pc, targets, preflight, moves, error, results>>

NoCheckpoint == [rev |-> -1, tip |-> -1]
NoToken == [store |-> 0, bound |-> NoCheckpoint, capabilities |-> <<>>, projections |-> <<>>]
NoNegotiation == [result |-> "none"]

---------------------------------------------------------------------------
(* Capability sets *)

StrictlySorted(s) == \A i \in 1 .. Len(s) - 1 : s[i] < s[i + 1]

\* The error of validate_set, or Ok.
validate_set(s) ==
    IF Len(s) > MaxEntries THEN "TooManyEntries"
    ELSE IF ~StrictlySorted(s) THEN "InvalidSetOrder" ELSE "Ok"

Lists(offer) == {offer.reqCaps, offer.reqProj, offer.supCaps, offer.supProj}
validate_offer_sets(offer) == \A s \in Lists(offer) : validate_set(s) = "Ok"
ValidRequirements(local) ==
    validate_offer_sets(local) /\ \A s \in Lists(local) : Range(s) \subseteq Known

\* The merge of two sorted lists, from the places i and j on.
Intersection(left, right) ==
    LET f[p \in (1 .. Len(left) + 1) \X (1 .. Len(right) + 1)] ==
            LET i == p[1]
                j == p[2]
            IN  IF i > Len(left) \/ j > Len(right) THEN <<>>
                ELSE IF left[i] < right[j] THEN f[<<i + 1, j>>]
                ELSE IF left[i] > right[j] THEN f[<<i, j + 1>>]
                ELSE <<left[i]>> \o f[<<i + 1, j + 1>>]
    IN  f[<<1, 1>>]

\* binary_search in a sorted list, between lo and hi.
BinarySearch(s, x) ==
    LET f[p \in (1 .. Len(s) + 1) \X (0 .. Len(s))] ==
            LET lo == p[1]
                hi == p[2]
                mid == (lo + hi) \div 2
            IN  IF lo > hi THEN FALSE
                ELSE IF s[mid] = x THEN TRUE
                ELSE IF s[mid] < x THEN f[<<mid + 1, hi>>] ELSE f[<<lo, mid - 1>>]
    IN  f[<<1, Len(s)>>]
Subset(required, supported) == \A x \in Range(required) : BinarySearch(supported, x)

\* Mutant: what the remote requires is not looked for in what is supported here.
NegotiateOneWay(s, expected, trusted, local, remote) ==
    IF cp[s] = NoCheckpoint THEN "MissingCheckpoint"
    ELSE IF expected # s THEN "ExpectedStoreMismatch"
    ELSE IF remote.store # expected THEN "RemoteStoreMismatch"
    ELSE IF ~trusted THEN "TrustMismatch"
    ELSE IF ~(Range(remote.reqCaps) \subseteq Known) THEN "UnknownRequiredCapability"
    ELSE IF ~(Range(remote.reqProj) \subseteq Known) THEN "UnknownRequiredProjection"
    ELSE IF ~Subset(local.reqCaps, remote.supCaps) THEN "LocalCapabilityRequirement"
    ELSE IF ~Subset(local.reqProj, remote.supProj) THEN "LocalProjectionRequirement"
    ELSE "Ok"

\* The checks of negotiate_handshake, in their order.
Verdict(s, expected, trusted, local, remote) ==
    IF cp[s] = NoCheckpoint THEN "MissingCheckpoint"
    ELSE IF expected # s THEN "ExpectedStoreMismatch"
    ELSE IF remote.store # expected THEN "RemoteStoreMismatch"
    ELSE IF ~trusted THEN "TrustMismatch"
    ELSE IF ~(Range(remote.reqCaps) \subseteq Known) THEN "UnknownRequiredCapability"
    ELSE IF ~(Range(remote.reqProj) \subseteq Known) THEN "UnknownRequiredProjection"
    ELSE IF ~Subset(local.reqCaps, remote.supCaps) THEN "LocalCapabilityRequirement"
    ELSE IF ~Subset(remote.reqCaps, local.supCaps) THEN "RemoteCapabilityRequirement"
    ELSE IF ~Subset(local.reqProj, remote.supProj) THEN "LocalProjectionRequirement"
    ELSE IF ~Subset(remote.reqProj, local.supProj) THEN "RemoteProjectionRequirement"
    ELSE "Ok"

negotiate_handshake(s, expected, trusted, local, remote) ==
    LET verdict == Verdict(s, expected, trusted, local, remote)
        made == [store |-> s, bound |-> cp[s],
                 capabilities |-> Intersection(local.supCaps, remote.supCaps),
                 projections |-> Intersection(local.supProj, remote.supProj)]
    IN  /\ ValidRequirements(local) /\ validate_offer_sets(remote)
        /\ IF verdict = "Ok"
           THEN /\ neg' = [result |-> "Ok", local |-> local, remote |-> remote, made |-> made]
                /\ token' = [token EXCEPT ![s] = made]
           ELSE neg' = NoNegotiation /\ UNCHANGED token
        /\ targets' = <<>> /\ preflight' = <<>> /\ moves' = <<>> /\ error' = "none" /\ results' = <<>>
        /\ UNCHANGED <<cp, cache, pc>>

---------------------------------------------------------------------------
(* sync_stores *)

\* The error of validate_target_shape, or Ok.
validate_target_shape(t) ==
    LET pairs == {i \in 1 .. Len(t) - 1 : t[i].expected >= t[i + 1].expected}
        first == CHOOSE i \in pairs : \A j \in pairs : i <= j
    IN  IF t = <<>> THEN "Empty"
        ELSE IF Len(t) > MaxTargets THEN "TooManyTargets"
        ELSE IF pairs = {} THEN "Ok"
        ELSE IF t[first].expected = t[first + 1].expected THEN "DuplicateTarget"
        ELSE "UnsortedTargets"

Handshake(t) == token[t.token]
SupportsSync(t) == BinarySearch(Handshake(t).capabilities, SyncCapability)

Fail(e) ==
    /\ error' = e /\ results' = <<>> /\ pc' = "idle"
    /\ UNCHANGED <<cp, cache, token, neg, targets, preflight, moves>>

sync_stores(t) ==
    /\ pc = "idle"
    /\ targets' = t /\ preflight' = <<>> /\ moves' = <<>> /\ neg' = NoNegotiation
    /\ LET shape == validate_target_shape(t)
       IN  /\ pc' = IF shape = "Ok" THEN "preflight" ELSE "idle"
           /\ error' = shape /\ results' = <<>>
    /\ UNCHANGED <<cp, cache, token>>

Target == targets[Len(preflight) + 1]

\* The error of the preflight of one target, or Ok.  The identity of the store is in
\* its checkpoint.
PreflightError(t) ==
    IF cp[t.store] = NoCheckpoint THEN "MissingCheckpoint"
    ELSE IF t.store # t.expected THEN "TargetStoreIdentityMismatch"
    ELSE IF Handshake(t).store # t.expected \/ Handshake(t).bound # cp[t.store]
         THEN "HandshakeCheckpointMismatch"
    ELSE IF ~t.auth THEN "RequestAuthorityMismatch"
    ELSE IF ~SupportsSync(t) THEN "MissingSyncCapability"
    ELSE "Ok"

\* Mutant: a target is transferred as soon as its own preflight has passed.
PreflightInterleaved ==
    /\ pc = "preflight" /\ PreflightError(Target) = "Ok"
    /\ preflight' = Append(preflight, cp[Target.store])
    /\ pc' = "transfer"
    /\ UNCHANGED <<cp, cache, token, neg, targets, moves, error, results>>

PreflightPasses ==
    /\ pc = "preflight" /\ PreflightError(Target) = "Ok"
    /\ preflight' = Append(preflight, cp[Target.store])
    /\ pc' = IF Len(preflight') = Len(targets) THEN "transfer" ELSE "preflight"
    /\ UNCHANGED <<cp, cache, token, neg, targets, moves, error, results>>
PreflightFails ==
    /\ pc = "preflight" /\ PreflightError(Target) # "Ok"
    /\ Fail(PreflightError(Target))
\* The lock, the checkpoint or the visible tree cannot be read.
PreflightUnreadable == pc = "preflight" /\ Fail("CheckpointAuthority")

---------------------------------------------------------------------------
(* One target after the other *)

\* Where a synchronisation moves a checkpoint: a new tip, with new records or without.
Advances(from) == {[rev |-> from.rev + d, tip |-> from.tip + 1] : d \in {n \in 0 .. 1 : from.tip < MaxTip}}

Turn == Len(results) + 1
Now == targets[Turn]

\* Mutant: the handshake is not compared again under the transfer's lock.
AuthorizedUnchecked(t) ==
    IF cp[t.store] = NoCheckpoint THEN "BootstrapRequired"
    ELSE IF Handshake(t).store # t.store THEN "HandshakeIdentityMismatch"
    ELSE IF ~t.auth THEN "LocalTrustMismatch"
    ELSE IF ~SupportsSync(t) THEN "MissingNegotiatedSyncCapability"
    ELSE "Ok"

\* The checks of sync_git_union_authorized, under the lock that the transfer keeps.
Authorized(t) ==
    IF cp[t.store] = NoCheckpoint THEN "BootstrapRequired"
    ELSE IF Handshake(t).store # t.store THEN "HandshakeIdentityMismatch"
    ELSE IF Handshake(t).bound # cp[t.store] THEN "StaleHandshake"
    ELSE IF ~t.auth THEN "LocalTrustMismatch"
    ELSE IF ~SupportsSync(t) THEN "MissingNegotiatedSyncCapability"
    ELSE "Ok"

Attempted(sync) ==
    /\ results' = Append(results,
            [store |-> Now.expected, before |-> preflight[Turn].rev, sync |-> sync,
             after |-> NoCheckpoint.rev, cached |-> "none"])
    /\ pc' = "observe"
    /\ UNCHANGED <<cache, token, neg, targets, preflight, error>>

TransferRefused ==
    /\ pc = "transfer" /\ Authorized(Now) # "Ok"
    /\ Attempted(Authorized(Now))
    /\ UNCHANGED <<cp, moves>>

\* sync_git_union_locked: it advances the checkpoint and succeeds, fails after it did
\* (the push is not observed), or fails, or quarantines, before.
Transfer(outcome, reached) ==
    /\ Authorized(Now) = "Ok"
    /\ moves' = Append(moves, [turn |-> Turn, from |-> cp[Now.store]])
    /\ cp' = [cp EXCEPT ![Now.store] = reached]
    /\ Attempted(outcome)
sync_git_union_locked ==
    /\ pc = "transfer"
    /\ \/ \E outcome \in {"Advanced", "error"}, reached \in Advances(cp[Now.store]) :
               Transfer(outcome, reached)
       \/ \E outcome \in {"UpToDate", "error", "Quarantined"} : Transfer(outcome, cp[Now.store])

Result == results[Len(results)]
Recorded(after, cached) ==
    results' = [results EXCEPT ![Len(results)] = [@ EXCEPT !.after = after, !.cached = cached]]
\* Mutant: a target that failed ends the call.
NextUnlessFailed ==
    pc' = IF Len(results) = Len(targets) \/ Result.sync = "error" THEN "idle" ELSE "transfer"

\* The next target, whatever became of this one.
NextTarget == pc' = IF Len(results) = Len(targets) THEN "idle" ELSE "transfer"

\* Mutant: the cache is left alone when the synchronisation failed.
ObserveSuccess ==
    /\ pc = "observe" /\ cp[targets[Len(results)].store] # NoCheckpoint
    /\ LET after == cp[targets[Len(results)].store].rev
       IN  IF after = Result.before \/ Result.sync = "error"
           THEN Recorded(after, "Unchanged") /\ NextTarget
           ELSE Recorded(after, "none") /\ pc' = "invalidate"
    /\ UNCHANGED <<cp, cache, token, neg, targets, preflight, moves, error>>

observe_checkpoint ==
    /\ pc = "observe" /\ cp[targets[Len(results)].store] # NoCheckpoint
    /\ LET after == cp[targets[Len(results)].store].rev
       IN  IF after = Result.before
           THEN Recorded(after, "Unchanged") /\ NextTarget
           ELSE Recorded(after, "none") /\ pc' = "invalidate"
    /\ UNCHANGED <<cp, cache, token, neg, targets, preflight, moves, error>>
ObservationFails ==
    /\ pc = "observe"
    /\ Recorded(NoCheckpoint.rev, "Unavailable") /\ NextTarget
    /\ UNCHANGED <<cp, cache, token, neg, targets, preflight, moves, error>>

\* ProofCache::invalidate_store(store, before, after), which ProofCache models.
invalidate_store ==
    /\ pc = "invalidate"
    /\ cache' = cache \ {<<Result.store, Result.before>>}
    /\ Recorded(Result.after, "Invalidated") /\ NextTarget
    /\ UNCHANGED <<cp, token, neg, targets, preflight, moves, error>>
CacheUnavailable ==
    /\ pc = "invalidate"
    /\ Recorded(Result.after, "Unavailable") /\ NextTarget
    /\ UNCHANGED <<cp, cache, token, neg, targets, preflight, moves, error>>
---------------------------------------------------------------------------
(* Other processes *)

\* bootstrap_git_admission records the first checkpoint; sync_git_union moves one.
Bootstrap(s) ==
    /\ neg' = NoNegotiation
    /\ cp[s] = NoCheckpoint
    /\ cp' = [cp EXCEPT ![s] = [rev |-> 0, tip |-> 0]]
    /\ UNCHANGED <<cache, token, callVars>>
SyncElsewhere(s) ==
    /\ neg' = NoNegotiation
    /\ cp[s] # NoCheckpoint
    /\ \E reached \in Advances(cp[s]) : cp' = [cp EXCEPT ![s] = reached]
    /\ UNCHANGED <<cache, token, callVars>>
\* A presence proof is cached under the revision that is current when it is made.
CacheProof(s) ==
    /\ neg' = NoNegotiation
    /\ cp[s] # NoCheckpoint
    /\ cache' = cache \union {<<s, cp[s].rev>>}
    /\ UNCHANGED <<cp, token, callVars>>

Init ==
    /\ cp = [s \in Store |-> NoCheckpoint] /\ cache = {}
    /\ token = [s \in Store |-> NoToken] /\ neg = NoNegotiation
    /\ pc = "idle" /\ targets = <<>> /\ preflight = <<>> /\ moves = <<>>
    /\ error = "none" /\ results = <<>>

Next ==
    \/ \E s \in Store : Bootstrap(s) \/ SyncElsewhere(s) \/ CacheProof(s)
    \/ /\ pc = "idle"
       /\ \E n \in Negotiations :
            negotiate_handshake(n.store, n.expected, n.trusted, n.local, n.remote)
    \/ \E t \in Requests : sync_stores(t)
    \/ PreflightPasses \/ PreflightFails \/ PreflightUnreadable
    \/ TransferRefused \/ sync_git_union_locked
    \/ observe_checkpoint \/ ObservationFails
    \/ invalidate_store \/ CacheUnavailable

Spec == Init /\ [][Next]_vars

---------------------------------------------------------------------------
(* Properties *)

\* A handshake is made only when each side supports, and this program knows, all that
\* the other side requires, and it holds exactly what both support, in order: the merge
\* and the binary searches of negotiate_handshake compute the sets they stand for.  What
\* a side requires and does not support itself may be missing from it.
NegotiatedMutual ==
    neg.result = "Ok" =>
        LET l == neg.local
            r == neg.remote
            m == neg.made
        IN  /\ Range(l.reqCaps) \subseteq Range(r.supCaps) \intersect Known
            /\ Range(r.reqCaps) \subseteq Range(l.supCaps) \intersect Known
            /\ Range(l.reqProj) \subseteq Range(r.supProj) \intersect Known
            /\ Range(r.reqProj) \subseteq Range(l.supProj) \intersect Known
            /\ Range(m.capabilities) = Range(l.supCaps) \intersect Range(r.supCaps)
            /\ Range(m.projections) = Range(l.supProj) \intersect Range(r.supProj)
            /\ StrictlySorted(m.capabilities) /\ StrictlySorted(m.projections)

\* Every transfer of sync_stores starts from the complete checkpoint that its preflight
\* compared and its handshake is bound to, although the lock was released in between.
TransfersFromPreflight ==
    \A i \in 1 .. Len(moves) : moves[i].from = preflight[moves[i].turn]

\* A call of sync_stores that returns an error has transferred nothing, and no target is
\* transferred before all of them have passed the preflight.
ErrorTransfersNothing ==
    moves # <<>> => error = "Ok" /\ Len(preflight) = Len(targets)

\* A call that returns results has one for every target in the order of the argument,
\* whatever became of each.
EveryTargetAnswered ==
    pc = "idle" /\ error = "Ok" =>
        [i \in 1 .. Len(results) |-> results[i].store]
            = [i \in 1 .. Len(targets) |-> targets[i].expected]

\* When a result says that the cache is unchanged or invalidated, no entry of the cache
\* still depends on the revision before, unless that revision is the one observed after:
\* also when the synchronisation failed after it had moved the checkpoint.
CacheCoversMoves ==
    \A i \in 1 .. Len(results) :
        LET r == results[i]
        IN  r.cached \in {"Unchanged", "Invalidated"} /\ r.after # r.before
                => <<r.store, r.before>> \notin cache
=============================================================================
