--------------------------- MODULE RevisionEditing ---------------------------
(***************************************************************************)
(* What every editing page of the browser is built from: the query of the  *)
(* resource that is shown and the mutation that writes it (api/hooks.ts    *)
(* over @tanstack/react-query), the management API behind them and the     *)
(* other administrators who write through it.  A resource is known by its  *)
(* revision and, field by field, by the revision that wrote the field      *)
(* last, which is enough to tell whose value a write overwrites.           *)
(*                                                                         *)
(* One read is under way at a time: useApiQuery hands its signal to        *)
(* fetch, so a read nobody observes is aborted and a later one replaces    *)
(* it.  One write is under way at a time (a bound of the model: a page     *)
(* disables the button of a mutation that is pending, not all of them).    *)
(***************************************************************************)
EXTENDS Page

CONSTANTS Res,     \* the resources of the page's list
          Field,   \* the fields of a resource's form
          MaxRev,  \* bound of the model: how many writes there are in all
          Gone     \* what the server holds of a deleted resource

VARIABLES server,   \* the management API: [Res -> Version or Gone]
          cache,    \* the query cache: what was read last of each resource
          reading,  \* the read under way of the resource shown: [id, found]
          open,     \* the resource whose drawer (or panel) is shown
          draft,    \* the form: what it was filled from and what was edited
          conflict, \* a notice about a 409 is shown
          request   \* the mutation under way

editVars == <<server, cache, reading, open, draft, conflict, request>>

ASSUME EditingAssumption ==
    /\ IsFiniteSet(Res) /\ MaxRev \in Nat
    /\ {None, Gone} \cap [rev : Nat, of : [Field -> Nat]] = {}
    /\ None \notin [id : Res, base : [rev : Nat, of : [Field -> Nat]],
                   edited : SUBSET Field, rev : Nat, adopted : BOOLEAN]

Version == [rev : 0..MaxRev, of : [Field -> 0..MaxRev]]

\* A form filled from `base`, to be saved with the revision `rev`; `adopted`
\* says that the operator took a newer revision over after a conflict.
Draft == [id : Res, base : Version, edited : SUBSET Field, rev : 0..MaxRev,
          adopted : BOOLEAN]

\* `whole` tells a body with every field from a patch of the edited ones,
\* `mounted` whether the component that sent it still shows the same resource.
Request == [kind : {"save", "update", "switch", "delete", "action"}, form : Draft,
            whole : BOOLEAN, mounted : BOOLEAN, answer : Version \union {None},
            phase : {"sent", "done", "accepted", "conflict", "failed"}]

\* Slip: the revision the save is going to make.
FreshNext(r, v) == [id |-> r, base |-> v, edited |-> {}, rev |-> v.rev + 1, adopted |-> FALSE]

\* A form that was just filled.
Fresh(r, v) == [id |-> r, base |-> v, edited |-> {}, rev |-> v.rev, adopted |-> FALSE]

\* The bound of the model: the writes there were, of a resource that is there
\* one for each of its revisions; a deleted resource does not count.
Writes == {w \in Res \X (1..MaxRev) : server[w[1]] # Gone /\ w[2] <= server[w[1]].rev}

MayWrite == Cardinality(Writes) < MaxRev

Shown == IF open = None THEN None ELSE cache[open]

Pending == request # None

\* The page is entered when the resources R exist.
EditingInit(R) ==
    /\ server = [r \in Res |-> IF r \in R THEN [rev |-> 0, of |-> [f \in Field |-> 0]]
                              ELSE Gone]
    /\ cache = [r \in Res |-> None]
    /\ reading = None /\ open = None /\ draft = None
    /\ conflict = FALSE /\ request = None

-----------------------------------------------------------------------------
(* The query: useApiQuery, usePollingInterval, refetch.                    *)

Fetch(r) == reading' = IF r = None THEN None ELSE [id |-> r, found |-> server'[r]]

\* A mount with stale data, a poll, the focus of the window or a press of the
\* retry button; it replaces a read under way (invalidateQueries does).
Refetch ==
    /\ open # None
    /\ UNCHANGED <<server, cache, open, draft, conflict, request>>
    /\ Fetch(open)

\* The answer of the read becomes the cached data; a 404 or a lost answer
\* leaves the data that was read before.
Land ==
    /\ reading # None
    /\ reading' = None
    /\ \/ /\ reading.found # Gone
          /\ cache' = [cache EXCEPT ![reading.id] = reading.found]
       \/ UNCHANGED cache
    /\ UNCHANGED <<server, open, conflict, request>>

-----------------------------------------------------------------------------
(* The mutation: useApiMutation, which is never retried.                   *)

Send(kind, form, whole) ==
    request' = [kind |-> kind, form |-> form, whole |-> whole, mounted |-> TRUE,
                answer |-> None, phase |-> "sent"]

\* What the server keeps of v after the body of q.
Written(q, v) ==
    [rev |-> v.rev + 1,
     of  |-> [f \in Field |-> IF f \in q.form.edited THEN v.rev + 1
                              ELSE IF q.whole THEN q.form.base.of[f]
                              ELSE v.of[f]]]

Accepts(q) == server[q.form.id] # Gone /\ server[q.form.id].rev = q.form.rev

Replied(phase, answer) ==
    request' = [request EXCEPT !.phase = phase, !.answer = answer]

\* If-Match holds and the write is carried out.  onSuccess invalidates the
\* query and awaits its refetch before the caller goes on; a lost answer
\* leaves the write done and the page with an error.
Apply ==
    /\ request.phase = "sent" /\ Accepts(request) /\ request.kind # "action"
    /\ LET id == request.form.id
           v  == IF request.kind = "delete" THEN Gone ELSE Written(request, server[id])
       IN  /\ MayWrite
           /\ server' = [server EXCEPT ![id] = v]
           /\ \/ Replied("done", IF v = Gone THEN None ELSE v) /\ Fetch(open)
              \/ Replied("failed", None) /\ UNCHANGED reading

\* The write is refused because of its revision, fails, or is taken as an
\* operation (202) that the operation tracker follows.
Decline ==
    /\ request.phase = "sent"
    /\ UNCHANGED server
    /\ \/ /\ ~Accepts(request) /\ server[request.form.id] # Gone
          /\ request.kind # "action"
          /\ Replied("conflict", None) /\ UNCHANGED reading
       \/ Replied("failed", None) /\ UNCHANGED reading
       \/ /\ request.kind \in {"action", "update"}
          /\ Replied("accepted", None) /\ Fetch(open)

Answer ==
    /\ Pending
    /\ Apply \/ Decline
    /\ UNCHANGED <<cache, open, draft, conflict>>

\* mutateAsync resumes its caller: at once after an error, and after the
\* refetch of what is shown otherwise.
Resumes(phase) ==
    /\ Pending /\ request.phase = phase
    /\ phase \in {"done", "accepted"} => reading = None

\* What every page of this kind does when an answer comes that changes
\* nothing but a message: a 202 is tracked, an error shown.
Told ==
    /\ \E p \in {"done", "accepted", "conflict", "failed"} : Resumes(p)
    /\ request' = None
    /\ UNCHANGED <<server, cache, reading, open, draft, conflict>>

-----------------------------------------------------------------------------
(* Drawers and panels come and go.                                         *)

\* A drawer is opened; the resource is read unless the cache holds it (it is
\* also read when the data is older than staleTime).
Mount(r) ==
    /\ open = None
    /\ open' = r
    /\ UNCHANGED <<server, cache, conflict, request>>
    /\ \/ Fetch(r)
       \/ cache[r] # None /\ UNCHANGED reading

\* The component goes with its state, and a mutation under way goes on
\* without it; its read is aborted.
Unmount ==
    /\ open # None
    /\ open' = None /\ reading' = None /\ draft' = None /\ conflict' = FALSE
    /\ request' = IF Pending THEN [request EXCEPT !.mounted = FALSE] ELSE None
    /\ UNCHANGED <<server, cache>>

\* A switch in a row of the list, with the revision that was read for it.
SwitchRow(r, f) ==
    /\ open = None /\ ~Pending /\ cache[r] # None
    /\ Send("switch", [Fresh(r, cache[r]) EXCEPT !.edited = {f}], FALSE)
    /\ UNCHANGED <<server, cache, reading, open, draft, conflict>>

\* clearLocalSession: the session of the tab ends (a 401, a logout here or in
\* another tab); the cache is cleared and the page leaves with its state.  A
\* mutation under way may still reach the server, as another's would.
SessionEnds ==
    /\ cache' = [r \in Res |-> None]
    /\ open' = None /\ reading' = None /\ draft' = None
    /\ conflict' = FALSE /\ request' = None
    /\ UNCHANGED server

-----------------------------------------------------------------------------
(* Others, through another browser, the API itself or this page's list.    *)

OtherAdmin ==
    \E r \in Res :
        /\ server[r] # Gone /\ MayWrite
        /\ \/ \E F \in SUBSET Field \ {{}} :
                 server' = [server EXCEPT ![r] =
                    [rev |-> @.rev + 1,
                     of  |-> [f \in Field |-> IF f \in F THEN @.rev + 1 ELSE @.of[f]]]]
           \/ server' = [server EXCEPT ![r] = Gone]
        /\ UNCHANGED <<cache, reading, open, draft, conflict, request>>

-----------------------------------------------------------------------------
EditingTypeOK ==
    /\ server \in [Res -> Version \union {Gone}]
    /\ cache \in [Res -> Version \union {None}]
    /\ reading = None \/ reading \in [id : Res, found : Version \union {Gone}]
    /\ open \in Res \union {None}
    /\ draft = None \/ draft \in Draft
    /\ conflict \in BOOLEAN
    /\ request = None \/ request \in Request
=============================================================================
