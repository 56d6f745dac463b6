----------------------------- MODULE ObjectStore -----------------------------
(***************************************************************************)
(* One object key behind services/visual_storage.VisualStorage: a PUT that *)
(* runs in a process of its own and may outlive the caller's patience, the *)
(* erasure that goes through the versions page by page, and the            *)
(* reconciliation that looks for a PUT whose answer was lost.              *)
(*                                                                         *)
(* The store is a local directory, a bucket without versions (whose        *)
(* version listing may be empty or show the one "null" version), or a      *)
(* versioned bucket.  An accepted PUT commits whenever the server likes.   *)
(* Another part of the program may delete the key by name, which leaves a  *)
(* delete marker in a versioned bucket.                                    *)
(*                                                                         *)
(* Keys, sizes, checksums and the shape of the answers are checked by the  *)
(* code before it acts on them; a failed check is one of the failures that *)
(* may end every operation here.  What one call reads is one step.         *)
(***************************************************************************)
EXTENDS Naturals, FiniteSets, FiniteSetsExt

CONSTANTS
  Writer,       \* dispatches of a PUT for this key; each has bytes of its own
  Mode,         \* the kinds of store: subset of {"local", "hidden", "null", "versioned"}
  PageSize,     \* VERSION_PAGE_SIZE
  MaxPages,     \* MAX_VERSION_PAGES
  MaxId,        \* bound: objects and markers ever made
  MaxErase      \* bound: erasures begun

VARIABLES
  mode,         \* the store behind the key
  versions,     \* what it holds under the key: [id, body], a newer one with a greater id
  nextId,       \* id of the next object or marker
  wire,         \* PUTs the server has accepted and not decided
  parent,       \* put() as its caller sees it
  child,        \* the process that runs it (_s3_child), or the local write
  eraser,       \* erase()
  finder,       \* reconcile_write()
  proven,       \* writers for whom it returned True
  erasures      \* erasures begun

vars == <<mode, versions, nextId, wire, parent, child, eraser, finder, proven, erasures>>
store == <<versions, nextId>>
writing == <<wire, parent, child>>

Body == Writer \union {"part", "marker"}
Version == [id : 0 .. MaxId, body : Body]
Eraser == [at : {"idle", "list", "delete", "head", "relist", "recheck", "look", "erased"},
           mark : 0 .. MaxId, pages : 0 .. MaxPages, found : SUBSET (0 .. MaxId),
           more : BOOLEAN, proof : BOOLEAN]
Finder == [at : {"idle", "list", "read"}, for : Writer \union {"none"}, mark : 0 .. MaxId,
           pages : 0 .. MaxPages, left : SUBSET (0 .. MaxId), all : BOOLEAN]

NotErasing == [at |-> "idle", mark |-> 0, pages |-> 0, found |-> {}, more |-> FALSE,
                proof |-> FALSE]
\* The erasure goes on with its next call.
Erasing(at) == [NotErasing EXCEPT !.at = at, !.proof = eraser.proof]

NotFinding == [at |-> "idle", for |-> "none", mark |-> 0, pages |-> 0,
               left |-> {}, all |-> FALSE]

TypeOK ==
  /\ mode \in Mode
  /\ versions \subseteq Version
  /\ nextId \in 0 .. MaxId
  /\ wire \subseteq Writer
  /\ parent \in [Writer -> {"idle", "waiting", "stored", "failed", "unresolved"}]
  /\ child \in [Writer -> {"none", "running", "sent", "opened", "stored", "refused", "gone"}]
  /\ eraser \in Eraser /\ finder \in Finder
  /\ proven \subseteq Writer
  /\ erasures \in 0 .. MaxErase
  /\ \A v, x \in versions : v.id = x.id \/ mode # "versioned" => v = x

Init ==
  /\ mode \in Mode
  /\ versions = {} /\ nextId = 0
  /\ wire = {}
  /\ parent = [w \in Writer |-> "idle"]
  /\ child = [w \in Writer |-> "none"]
  /\ eraser = NotErasing /\ finder = NotFinding
  /\ proven = {} /\ erasures = 0

-----------------------------------------------------------------------------
(* The store.                                                              *)

Remote == mode # "local"
Newest == CHOOSE v \in versions : \A x \in versions : x.id <= v.id
Current == IF versions = {} THEN "none" ELSE Newest.body
Absent == Current \in {"none", "marker"}

\* A new object or marker becomes current; without versions it replaces the old one.
Makes(body) ==
  /\ nextId < MaxId
  /\ nextId' = nextId + 1
  /\ versions' = {[id |-> nextId, body |-> body]} \union IF mode = "versioned" THEN versions ELSE {}

\* Deleting versions: the "null" version is whatever the key holds now.
Deletes(ids) ==
  /\ versions' = {v \in versions : IF mode = "versioned" THEN v.id \notin ids ELSE ids = {}}
  /\ UNCHANGED nextId

Ids == {v.id : v \in versions}
BodyOf(id) == (CHOOSE v \in versions : v.id = id).body

\* One page of the version listing: the newest ids older than the mark.  A
\* store without versions may list nothing while it holds an object.
Listed(mark) ==
  LET older == {i \in Ids : i < mark} IN
  IF mode = "hidden" THEN {} ELSE {i \in older : Cardinality({j \in older : j > i}) < PageSize}
Truncated(mark) == mode # "hidden" /\ Cardinality({i \in Ids : i < mark}) > PageSize

\* SourceStorage.delete, without a version, by another part of the program.
Discard ==
  /\ IF mode = "versioned" THEN Makes("marker") ELSE versions # {} /\ Deletes(Ids)
  /\ UNCHANGED <<mode, writing, eraser, finder, proven, erasures>>

-----------------------------------------------------------------------------
(* put().                                                                  *)

Put(w) ==
  /\ parent[w] = "idle"
  /\ parent' = [parent EXCEPT ![w] = "waiting"]
  /\ child' = [child EXCEPT ![w] = "running"]
  /\ UNCHANGED <<mode, store, wire, eraser, finder, proven, erasures>>

\* The child sends its one request; it may get lost on its way.
Send(w) ==
  /\ Remote /\ child[w] = "running"
  /\ child' = [child EXCEPT ![w] = "sent"]
  /\ wire' \in {wire \union {w}, wire}
  /\ UNCHANGED <<mode, store, parent, eraser, finder, proven, erasures>>

Hears(w, answer) == child' = [child EXCEPT ![w] = IF @ = "sent" THEN answer ELSE @]

\* IfNoneMatch: the server commits only where no object is current.
Commit(w) ==
  /\ w \in wire /\ wire' = wire \ {w}
  /\ IF Absent THEN Makes(w) /\ Hears(w, "stored") ELSE UNCHANGED store /\ Hears(w, "refused")
  /\ UNCHANGED <<mode, parent, eraser, finder, proven, erasures>>

\* LocalSourceStorage.put: exclusive creation, then the bytes.
Create(w) ==
  /\ ~ Remote /\ child[w] = "running"
  /\ IF versions = {} THEN Makes("part") /\ child' = [child EXCEPT ![w] = "opened"]
     ELSE UNCHANGED store /\ child' = [child EXCEPT ![w] = "refused"]
  /\ UNCHANGED <<mode, wire, parent, eraser, finder, proven, erasures>>

Fill(w) ==
  /\ child[w] = "opened"
  /\ versions' = {[v EXCEPT !.body = w] : v \in versions}
  /\ child' = [child EXCEPT ![w] = "stored"]
  /\ UNCHANGED <<mode, nextId, wire, parent, eraser, finder, proven, erasures>>

Answers(w) ==
  /\ parent[w] = "waiting" /\ child[w] \in {"stored", "refused"}
  /\ parent' = [parent EXCEPT ![w] = IF child[w] = "stored" THEN "stored" ELSE "failed"]
  /\ child' = [child EXCEPT ![w] = "gone"]
  /\ UNCHANGED <<mode, store, wire, eraser, finder, proven, erasures>>

\* terminate, then kill: the child is gone.
Stopped(w) == {"gone"}

\* The deadline passes or the child fails.  A child that survives the kill is
\* reported by a code of its own; the local write dies with its caller.
GiveUp(w) ==
  /\ parent[w] = "waiting"
  /\ \/ parent' = [parent EXCEPT ![w] = "failed"]
        /\ \E c \in Stopped(w) : child' = [child EXCEPT ![w] = c]
     \/ Remote
        /\ parent' = [parent EXCEPT ![w] = "unresolved"]
        /\ UNCHANGED child
  /\ UNCHANGED <<mode, store, wire, eraser, finder, proven, erasures>>

-----------------------------------------------------------------------------
(* erase().                                                                *)

BeginErase ==
  /\ eraser.at \in {"idle", "erased"} /\ erasures < MaxErase
  /\ erasures' = erasures + 1
  /\ eraser' = [NotErasing EXCEPT !.at = IF Remote THEN "list" ELSE "delete", !.mark = nextId,
                                  !.proof = proven # {}]
  /\ UNCHANGED <<mode, store, writing, finder, proven>>

\* Any call fails, is refused or times out.
BreakOff ==
  /\ eraser.at \notin {"idle", "erased"}
  /\ eraser' = NotErasing
  /\ UNCHANGED <<mode, store, writing, finder, proven, erasures>>

\* One page of the first pass; too many pages are an error.
ListPage ==
  /\ eraser.at = "list"
  /\ eraser' = IF eraser.pages = MaxPages THEN NotErasing
               ELSE [eraser EXCEPT !.at = "delete", !.pages = @ + 1, !.mark = 0,
                               !.found = Listed(eraser.mark), !.more = Truncated(eraser.mark)]
  /\ UNCHANGED <<mode, store, writing, finder, proven, erasures>>

\* The page's versions are deleted; then the next page, if there was one.
DeletePage ==
  /\ Remote /\ eraser.at = "delete"
  /\ Deletes(eraser.found)
  /\ eraser' = IF eraser.more THEN [eraser EXCEPT !.at = "list", !.mark = Min(eraser.found), !.found = {}]
               ELSE Erasing("head")
  /\ UNCHANGED <<mode, writing, finder, proven, erasures>>

\* What is current now is deleted as the "null" version, which a versioned
\* bucket does not have.
HeadCurrent ==
  /\ eraser.at = "head"
  /\ \/ Absent /\ UNCHANGED store
     \/ ~ Absent /\ IF mode = "versioned" THEN UNCHANGED store ELSE Deletes(Ids)
  /\ eraser' = Erasing("relist")
  /\ UNCHANGED <<mode, writing, finder, proven, erasures>>

\* Mutant of the next definition: the second listing is not looked at.
LeftOverUnseen == {}

\* What the second listing shows.
LeftOver == Listed(nextId)

Relist ==
  /\ eraser.at = "relist"
  /\ eraser' = IF LeftOver = {} THEN [Erasing("recheck") EXCEPT !.mark = nextId] ELSE NotErasing
  /\ UNCHANGED <<mode, store, writing, finder, proven, erasures>>

Recheck ==
  /\ eraser.at = "recheck"
  /\ eraser' = IF Absent THEN [eraser EXCEPT !.at = "erased"] ELSE NotErasing
  /\ UNCHANGED <<mode, store, writing, finder, proven, erasures>>

\* A local file is unlinked, and opened to see that it is gone.
Unlink ==
  /\ ~ Remote /\ eraser.at = "delete"
  /\ Deletes(Ids)
  /\ eraser' = [eraser EXCEPT !.at = "look", !.mark = nextId]
  /\ UNCHANGED <<mode, writing, finder, proven, erasures>>

Look ==
  /\ eraser.at = "look"
  /\ eraser' = IF versions = {} THEN [eraser EXCEPT !.at = "erased"] ELSE NotErasing
  /\ UNCHANGED <<mode, store, writing, finder, proven, erasures>>

-----------------------------------------------------------------------------
(* reconcile_write().                                                      *)

BeginFind(w) ==
  /\ finder.at = "idle" /\ parent[w] # "idle"
  /\ finder' = [NotFinding EXCEPT !.at = IF Remote THEN "list" ELSE "read", !.for = w, !.mark = nextId,
                                  !.all = ~ Remote]
  /\ UNCHANGED <<mode, store, writing, eraser, proven, erasures>>

FindPage ==
  /\ finder.at = "list"
  /\ LET page == Listed(finder.mark)
         left == finder.left \union page IN
     finder' = IF finder.pages = MaxPages THEN NotFinding
               ELSE IF Truncated(finder.mark)
                 THEN [finder EXCEPT !.left = left, !.mark = Min(page), !.pages = @ + 1]
               ELSE [finder EXCEPT !.at = "read", !.left = left, !.all = left = {}, !.mark = 0, !.pages = 0]
  /\ UNCHANGED <<mode, store, writing, eraser, proven, erasures>>

\* The bytes and their checksum are those of the PUT; a delete marker and a
\* version that is gone prove nothing.
Proves(w, body) == body = w

\* One read: of the newest version that was listed and not read yet, or of
\* the current object where none was listed.
Found ==
  /\ finder.at = "read"
  /\ finder.left # {} \/ finder.all
  /\ LET id == Max(finder.left)
         body == IF finder.all THEN Current
                 ELSE IF mode # "versioned" THEN Current
                 ELSE IF id \in Ids THEN BodyOf(id) ELSE "none" IN
     IF Proves(finder.for, body)
       THEN proven' = proven \union {finder.for} /\ finder' = NotFinding
       ELSE /\ UNCHANGED proven
            /\ finder' = IF finder.all \/ finder.left = {id} THEN NotFinding
                         ELSE [finder EXCEPT !.left = @ \ {id}]
  /\ UNCHANGED <<mode, store, writing, eraser, erasures>>

FindFails ==
  /\ finder.at # "idle" /\ finder' = NotFinding
  /\ UNCHANGED <<mode, store, writing, eraser, proven, erasures>>

-----------------------------------------------------------------------------
Writes == \E w \in Writer : Put(w) \/ Send(w) \/ Commit(w) \/ Create(w) \/ Fill(w) \/ Answers(w) \/ GiveUp(w)
Erases == BeginErase \/ BreakOff \/ ListPage \/ DeletePage \/ HeadCurrent \/ Relist \/ Recheck \/ Unlink \/ Look
Finds == FindPage \/ Found \/ FindFails \/ \E w \in Writer : BeginFind(w)

Next == Writes \/ Erases \/ Finds \/ Discard

Spec == Init /\ [][Next]_vars

-----------------------------------------------------------------------------
Held == {v.id : v \in {x \in versions : x.body # "marker"}}

\* When erase() returns, nothing remains of what was committed before its
\* last look began, under whatever writes and deletions ran beside it, and
\* nothing is current: a leftover older version is never taken for absence.
ErasedIsGone ==
  [][eraser.at # "erased" /\ eraser'.at = "erased" => Absent /\ \A i \in Held : i >= eraser.mark]_vars

\* A positive reconciliation settles the one PUT that was dispatched: an
\* erasure begun after it empties the key for good, no accepted PUT is left
\* to fill it again (VisualStorage.reconcile_write's no-retry contract).
ProofMakesErasureFinal ==
  eraser.at = "erased" /\ eraser.proof /\ Cardinality({w \in Writer : parent[w] # "idle"}) = 1 => Held = {}

\* Once put() has returned, its process sends nothing any more, unless the
\* caller was told that the writer could not be stopped (_isolated_s3).
NoAbandonedWriter ==
  [][\A w \in Writer : parent[w] \in {"stored", "failed"} =>
        w \notin wire' \ wire]_vars
=============================================================================
