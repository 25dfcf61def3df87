------------------------------- MODULE Landing -------------------------------
(***************************************************************************)
(* The landing page of a kindergarten's site: editors change the blocks    *)
(* and the SEO fields of a draft, publishers freeze the draft into the     *)
(* snapshot visitors see, or restore an old version                        *)
(* (src/src/landing/landing.service.ts).                                   *)
(*                                                                         *)
(* A block's type, position and content are one value of Contents; so      *)
(* reorder is a change of several blocks at once.  A restored block is a   *)
(* new row of the table: the model gives it the name it had in the         *)
(* snapshot, which no pending step can observe.  `now' is the clock of the *)
(* time stamps.  The server takes a stamp, and the statement that carries  *)
(* it is executed later: a publication may be stamped and committed in     *)
(* between.                                                                *)
(***************************************************************************)
EXTENDS Integers, FiniteSetsExt

CONSTANTS
    Blocks,      \* names of blocks
    Contents,    \* what a block may show, and where
    Seos,        \* values of the page's SEO fields
    Editors,     \* requests that edit
    Publishers,  \* requests that publish or restore
    MaxStops,    \* bound on requests that stop before their touch
    MaxVersion,  \* bound on versions
    MaxNow       \* bound on the clock

LandingConstants ==
    /\ MaxStops \in Nat /\ MaxVersion \in Nat /\ MaxNow \in Nat

VARIABLES
    draft,       \* the blocks of the draft: name -> row
    page,        \* the row of landing_page
    versions,    \* the rows of landing_page_version
    edit,        \* where each editor is, and the stamp it has taken
    work,        \* where each publisher is
    stops,       \* requests that have stopped
    behind,      \* history: a difference the stamps cannot show, see behind'
    now

vars == <<draft, page, versions, edit, work, stops, behind, now>>

Block == [content : Contents, isVisible : BOOLEAN, updatedAt : 0..MaxNow]
Shown == UNION {[B -> Contents] : B \in SUBSET Blocks}
Snapshot == [seo : Seos, blocks : Shown]

\* page.publishedAt and page.snapshot of a page that was never published.
Never == -1
Nothing == [version |-> 0]

Idle == [at |-> "idle"]

\* An editor between two edits, without a stamp.
Free == [at |-> "idle", stamp |-> 0]

(***************************************************************************)
(* What is compared and what is frozen.                                    *)
(***************************************************************************)
Visible(d) ==
    [b \in {c \in DOMAIN d : d[c].isVisible} |-> d[b].content]

Current == [seo |-> page.seo, blocks |-> Visible(draft)]

\* The draft is not what visitors see.
Differs == page.live # Nothing /\ page.live.snapshot # Current

lastEdit(p, d) == Max({p.updatedAt} \cup {d[b].updatedAt : b \in DOMAIN d})

\* MUTANT: the page's own stamp is left out of the comparison.
isBlockDirty(p, d) ==
    p.publishedAt = Never \/ \E b \in DOMAIN d : d[b].updatedAt > p.publishedAt

isDraftDirty(p, d) ==
    p.publishedAt = Never \/ lastEdit(p, d) > p.publishedAt

(***************************************************************************)
(* Editing.  A block is written by one statement and the page is touched   *)
(* by the next one, with no transaction around them; each is stamped       *)
(* before it is executed.                                                  *)
(***************************************************************************)
Tick == now < MaxNow /\ now' = now + 1

Touching == {e \in Editors : edit[e].at = "touch"}

\* new Date(), or the @updatedAt of the client, for the next statement.
Stamp(e) ==
    /\ edit[e].stamp = 0 /\ Tick
    /\ edit' = [edit EXCEPT ![e].stamp = now']
    /\ UNCHANGED <<draft, page, versions, work, stops, behind>>

MayEdit(e) == edit[e].at = "idle" /\ edit[e].stamp # 0

WriteBlocks(e, rows) ==
    /\ draft' = rows
    /\ edit' = [edit EXCEPT ![e] = [at |-> "touch", stamp |-> 0]]
    /\ UNCHANGED <<page, versions, work, stops, behind, now>>

NewBlock(e, c, v) == [content |-> c, isVisible |-> v, updatedAt |-> edit[e].stamp]

createBlock(e, b) ==
    /\ MayEdit(e)
    /\ b \in Blocks \ DOMAIN draft
    /\ \E c \in Contents, v \in BOOLEAN :
        WriteBlocks(e, [x \in DOMAIN draft \cup {b} |->
            IF x = b THEN NewBlock(e, c, v) ELSE draft[x]])

updateBlock(e, b) ==
    /\ MayEdit(e)
    /\ b \in DOMAIN draft
    /\ \E c \in Contents, v \in BOOLEAN :
        WriteBlocks(e, [draft EXCEPT ![b] = NewBlock(e, c, v)])

deleteBlock(e, b) ==
    /\ edit[e] = Free
    /\ b \in DOMAIN draft
    /\ WriteBlocks(e, [x \in DOMAIN draft \ {b} |-> draft[x]])

\* The statement checks nothing but that the blocks are of this page.
reorder(e) ==
    /\ MayEdit(e)
    /\ \E B \in SUBSET DOMAIN draft : \E to \in [B -> Contents] :
        /\ B # {}
        /\ WriteBlocks(e, [x \in DOMAIN draft |->
            IF x \in B THEN NewBlock(e, to[x], draft[x].isVisible) ELSE draft[x]])

\* The page is written with the editor's stamp.  If the last publication has a
\* later one, and shows something else, the page does not tell of it.
WritePage(e, row) ==
    /\ page' = row
    /\ edit' = [edit EXCEPT ![e] = Free]
    /\ UNCHANGED <<draft, versions, work, stops, now>>
    /\ behind' = (Differs' /\ edit[e].stamp <= page.publishedAt)

touch(e) ==
    /\ edit[e].at = "touch" /\ edit[e].stamp # 0
    /\ WritePage(e, [page EXCEPT !.updatedAt = edit[e].stamp])

updateSeo(e) ==
    /\ MayEdit(e)
    /\ \E s \in Seos :
        WritePage(e, [page EXCEPT !.seo = s, !.updatedAt = edit[e].stamp])

\* The request ends between the block's statement and the page's.
StopBeforeTouch(e) ==
    /\ edit[e].at = "touch" /\ stops < MaxStops
    /\ edit' = [edit EXCEPT ![e] = Free]
    /\ stops' = stops + 1
    /\ UNCHANGED <<draft, page, versions, work, behind, now>>

(***************************************************************************)
(* Publishing and restoring.  The page, then the blocks or the version to  *)
(* restore, are read outside the transaction that writes.                  *)
(***************************************************************************)
Step(p, w) == work' = [work EXCEPT ![p] = w]

ReadPage(p) ==
    /\ work[p] = Idle
    /\ page.version < MaxVersion
    /\ Step(p, [at |-> "page", version |-> page.version + 1, seo |-> page.seo])
    /\ UNCHANGED <<draft, page, versions, edit, stops, behind, now>>

Read(p, snapshot, restores) ==
    /\ work[p].at = "page"
    /\ Step(p, [at |-> "read", version |-> work[p].version,
                snapshot |-> snapshot, restores |-> restores])
    /\ UNCHANGED <<draft, page, versions, edit, stops, behind, now>>

ReadBlocks(p) ==
    /\ work[p].at = "page"
    /\ Read(p, [seo |-> work[p].seo, blocks |-> Visible(draft)], FALSE)

getVersion(p) == \E r \in versions : Read(p, r.snapshot, TRUE)

StampPublishedAt(p) ==
    /\ work[p].at = "read" /\ Tick
    /\ Step(p, [at |-> "stamped", version |-> work[p].version,
                snapshot |-> work[p].snapshot, restores |-> work[p].restores,
                publishedAt |-> now'])
    /\ UNCHANGED <<draft, page, versions, edit, stops, behind>>

\* The page's row after the transaction: updatedAt is set to publishedAt.
Published(w) ==
    [seo |-> IF w.restores THEN w.snapshot.seo ELSE page.seo,
     updatedAt |-> w.publishedAt, publishedAt |-> w.publishedAt,
     version |-> w.version, live |-> [version |-> w.version, snapshot |-> w.snapshot]]

\* The blocks a restore creates, all of them visible and stamped alike.
Restored(w) ==
    [b \in DOMAIN w.snapshot.blocks |->
        [content |-> w.snapshot.blocks[b], isVisible |-> TRUE,
         updatedAt |-> w.publishedAt]]

\* MUTANT: no unique index on (page_id, version).
NeverTaken(v) == FALSE

Taken(v) == \E r \in versions : r.version = v

writeVersion(p) ==
    LET w == work[p] IN
    /\ w.at = "stamped"
    /\ ~Taken(w.version)
    /\ page' = Published(w)
    /\ draft' = IF w.restores THEN Restored(w) ELSE draft
    /\ versions' = versions \cup {[version |-> w.version, snapshot |-> w.snapshot]}
    /\ behind' = (~w.restores /\ w.snapshot # Current)
    /\ Step(p, Idle)
    /\ UNCHANGED <<edit, stops, now>>

\* The unique index refuses the row; the transaction is undone, a 409.
CONCURRENT_PUBLISH(p) ==
    /\ work[p].at = "stamped" /\ Taken(work[p].version)
    /\ Step(p, Idle)
    /\ UNCHANGED <<draft, page, versions, edit, stops, behind, now>>

Init ==
    /\ draft = [b \in {} |-> 0]
    /\ page \in [seo : Seos, updatedAt : {0}, publishedAt : {Never},
                 version : {0}, live : {Nothing}]
    /\ versions = {} /\ edit = [e \in Editors |-> Free] /\ stops = 0 /\ behind = FALSE /\ now = 0
    /\ work = [p \in Publishers |-> Idle]

Edit(e) ==
    \/ \E b \in Blocks : createBlock(e, b) \/ updateBlock(e, b) \/ deleteBlock(e, b)
    \/ Stamp(e) \/ reorder(e) \/ updateSeo(e) \/ touch(e) \/ StopBeforeTouch(e)

Publish(p) ==
    \/ ReadPage(p) \/ ReadBlocks(p) \/ getVersion(p) \/ StampPublishedAt(p)
    \/ writeVersion(p) \/ CONCURRENT_PUBLISH(p)

Next == (\E e \in Editors : Edit(e)) \/ (\E p \in Publishers : Publish(p))

Spec == Init /\ [][Next]_vars

-----------------------------------------------------------------------------
(***************************************************************************)
(* Properties                                                              *)
(***************************************************************************)
VersionRow == [version : 1..MaxVersion, snapshot : Snapshot]

\* Every variable keeps its type: in particular a page that has a version
\* shows a snapshot, and stamps never run ahead of the clock.
TypeOK ==
    /\ DOMAIN draft \subseteq Blocks
    /\ \A b \in DOMAIN draft : draft[b] \in Block /\ draft[b].updatedAt <= now
    /\ page \in [seo : Seos, updatedAt : 0..now, publishedAt : {Never} \cup 1..now,
                 version : 0..MaxVersion, live : VersionRow \cup {Nothing}]
    /\ (page.publishedAt = Never) = (page.live = Nothing)
    /\ versions \subseteq VersionRow
    /\ edit \in [Editors -> [at : {"idle", "touch"}, stamp : 0..now]] /\ stops \in 0..MaxStops
    /\ behind \in BOOLEAN /\ now \in 0..MaxNow

\* What visitors see is the last row of the history, and the history has one
\* row for every version from the first: two publishers that read the same
\* page.version never both keep what they wrote (publish, restore).  Every
\* variable keeps its type.
LiveIsLatest ==
    /\ TypeOK
    /\ {r.version : r \in versions} = 1..page.version
    /\ \A r, s \in versions : r.version = s.version => r = s
    /\ page.version > 0 => page.live \in versions /\ page.live.version = page.version

\* A draft that is not what visitors see is reported as unpublished
\* (hasUnpublishedChanges), through every interleaving of edits, publications
\* and restores, once the editors' touches are written; unless the last
\* publication overwrote an edit it had not read, or the last write of the page
\* was stamped before that publication and came after it.
DifferenceIsSeen ==
    Touching = {} /\ stops = 0 /\ ~behind /\ Differs => isDraftDirty(page, draft)

\* The same without the exception: "whether the draft holds anything the public
\* page has not seen yet".
EveryDifferenceIsSeen ==
    Touching = {} /\ stops = 0 /\ Differs => isDraftDirty(page, draft)
=============================================================================
