----------------------------- MODULE PageStore -----------------------------
(***************************************************************************)
(* The file below the B+tree (storage.go): the flush goroutine, which      *)
(* writes the dirty pages and then the header of the file and shares no    *)
(* lock with Put, and what the next start finds (newFileStore and          *)
(* NewBTreeWithPath).                                                      *)
(*                                                                         *)
(* The header (rootOffset, nextFreeOffset) has no place of its own: it is  *)
(* written over the first 16 bytes of the page at offset 0.  save does not *)
(* sync; the Sync of the next page does.  Nothing calls setRoot, so the    *)
(* rootOffset saved is always 0, no start loads a page, and the leaves of  *)
(* an earlier life are only known here by the header they left.            *)
(*                                                                         *)
(* Only leaves become dirty, so the internal root is never written.        *)
(***************************************************************************)
EXTENDS BTree

CONSTANTS
    Large,       \* the values that do not fit in a page
    MaxLives     \* bound: starts of the process

ASSUME PageStoreAssumption == Large \subseteq Value /\ MaxLives \in Nat \ {0}

VARIABLES
    up,          \* the process: "open", "down", or "failed" while opening
    lives,
    base,        \* offset, in pages, of the first page of this life
    dirty,       \* the leaves whose isDirty is set
    missed,      \* history: the clean leaves that differ from the file
    disk,        \* the cells written for each leaf in this life
    flush,       \* flushPages: where it is, the pages its loop has yet to
                 \* visit, the page it is at and what encode made of it
    written,     \* the first 16 bytes of the file
    synced       \* what of them a failure of the machine leaves

storeVars == <<up, lives, base, dirty, missed, disk, flush, written, synced>>
allVars   == <<vars, storeVars>>

Nothing   == [holds |-> "nothing"]      \* the file is empty
PageBytes == [holds |-> "page"]         \* they are the start of a page
Torn      == <<[holds |-> "torn"]>>     \* a page encoded while a Put changed it

\* The header save writes.
nextFreeOffset == base + Len(leaf) + (IF root = Empty THEN 0 ELSE 1)
header         ==
    [holds |-> "header", rootOffset |-> 0, nextFreeOffset |-> nextFreeOffset]

\* Mutant: the offset of a page counts from the first page of this life.
atOffsetZeroOfLife(p) == p = 1

\* add gives pages the next free offsets: leaf 1 is the first of this life.
atOffsetZero(p) == base = 0 /\ p = 1

\* encodeLeaf writes the cells in the order of the offsets.
encodeLeaf(n) == [i \in DOMAIN n.offsets |-> n.cells[n.offsets[i]]]

\* The page does not fit: encodeLeaf fails, and the goroutine panics.
exceedsPage(b) == b # Torn /\ \E i \in DOMAIN b : b[i].val \in Large

Idle == [at |-> "idle", todo |-> {}, page |-> 1, buf |-> << >>]

StoreInit ==
    /\ Init
    /\ up = "open" /\ lives = 1 /\ base = 0
    /\ dirty = {} /\ missed = {} /\ disk = << << >> >> /\ flush = Idle
    /\ written = Nothing /\ synced = Nothing
-----------------------------------------------------------------------------
running == up = "open" /\ ~panicked

\* The page flushPages is working on: a Put to it may be seen or not, and is
\* not written again if markClean comes after its markDirty.
flushing(p) == flush.at \in {"write", "clean"} /\ flush.page = p

\* Mutant: an update in place does not mark the page.
markDirtyIfGrown(p) == IF Len(leaf'[p].cells) = Len(leaf[p].cells) THEN dirty ELSE dirty \cup {p}

markDirty(p) == dirty \cup {p}

\* A Put and its pages.  insertLeaf marks the page it inserts in; a page that
\* split adds is not marked.  The loop of flushPages may or may not reach a
\* page that is added to the cache while it runs.
StorePut(key, val) ==
    LET p     == child(key)
        added == DOMAIN leaf' \ DOMAIN leaf
    IN
    /\ running
    /\ Put(key, val)
    /\ dirty'  = markDirty(p)
    /\ missed' = missed \cup added \cup (IF flushing(p) THEN {p} ELSE {})
    /\ disk'   = disk \o [i \in 1 .. Len(leaf') - Len(leaf) |-> << >>]
    /\ \E seen \in IF flush.at = "idle" THEN {{}} ELSE {{}, added},
          b \in IF flush.at = "write" /\ flush.page = p
                THEN {flush.buf, encodeLeaf(leaf'[p]), Torn} ELSE {flush.buf} :
          flush' = [flush EXCEPT !.todo = @ \cup seen, !.buf = b]
    /\ UNCHANGED <<up, lives, base, written, synced>>

\* The ticker: flushPages ranges over the cache.
FlushPages ==
    /\ running /\ flush.at = "idle"
    /\ flush' = [flush EXCEPT !.at = "visit", !.todo = DOMAIN leaf]
    /\ UNCHANGED <<vars, up, lives, base, dirty, missed, disk, written, synced>>

\* A clean page is passed over; a dirty one is given to update, which encodes it.
Visit(p) ==
    /\ running /\ flush.at = "visit" /\ p \in flush.todo
    /\ \/ /\ p \notin dirty
          /\ flush' = [flush EXCEPT !.todo = @ \ {p}]
          /\ UNCHANGED missed
       \/ /\ p \in dirty
          /\ flush' = [at |-> "write", todo |-> flush.todo \ {p}, page |-> p,
                       buf |-> encodeLeaf(leaf[p])]
          /\ missed' = missed \ {p}
    /\ UNCHANGED <<vars, up, lives, base, dirty, disk, written, synced>>

\* update writes the page and syncs the file, and with it a header written before.
Update ==
    /\ running /\ flush.at = "write" /\ ~exceedsPage(flush.buf)
    /\ disk' = [disk EXCEPT ![flush.page] = flush.buf]
    /\ written' = IF atOffsetZero(flush.page) THEN PageBytes ELSE written
    /\ synced' = written'
    /\ flush' = [flush EXCEPT !.at = "clean"]
    /\ UNCHANGED <<vars, up, lives, base, dirty, missed>>

\* The error of encode is a panic of the goroutine.
UpdateFails ==
    /\ running /\ flush.at = "write" /\ exceedsPage(flush.buf)
    /\ panicked' = TRUE
    /\ UNCHANGED <<leaf, root, stored, storeVars>>

MarkClean ==
    /\ running /\ flush.at = "clean"
    /\ dirty' = dirty \ {flush.page}
    /\ flush' = [Idle EXCEPT !.at = "visit", !.todo = flush.todo]
    /\ UNCHANGED <<vars, up, lives, base, missed, disk, written, synced>>

\* The end of flushPages: the header is written, and not synced.
Save ==
    /\ running /\ flush.at = "visit" /\ flush.todo = {}
    /\ flush' = Idle
    /\ written' = header
    /\ UNCHANGED <<vars, up, lives, base, dirty, missed, disk, synced>>

\* The process ends, after a panic or at any other time: what it has written
\* stays; or the machine fails and a header that was not synced may be lost.
Crash ==
    /\ up = "open"
    /\ up' = "down"
    /\ written' \in {written, synced}
    /\ synced' \in {synced, written'}
    /\ leaf' = <<Empty>> /\ root' = Empty /\ panicked' = FALSE
    /\ stored' = [k \in Key |-> None]
    /\ dirty' = {} /\ missed' = {} /\ disk' = << << >> >> /\ flush' = Idle
    /\ UNCHANGED <<lives, base>>

\* NewBTreeWithPath.  The first bytes of a leaf, read as a header, are a root
\* offset far past the end of the file, and loadPage fails: a panic.  With
\* rootOffset 0 the tree is a new leaf at nextFreeOffset.
NewBTreeWithPath ==
    /\ up = "down" /\ lives < MaxLives
    /\ lives' = lives + 1
    /\ \/ written = PageBytes /\ up' = "failed" /\ UNCHANGED base
       \/ /\ written # PageBytes /\ up' = "open"
          /\ base' = IF written = Nothing THEN 0 ELSE written.nextFreeOffset
    /\ UNCHANGED <<vars, dirty, missed, disk, flush, written, synced>>

StoreNext ==
    \/ \E key \in Key, val \in Value : StorePut(key, val)
    \/ FlushPages
    \/ \E p \in flush.todo : Visit(p)
    \/ Update
    \/ UpdateFails
    \/ MarkClean
    \/ Save
    \/ Crash
    \/ NewBTreeWithPath

StoreSpec == StoreInit /\ [][StoreNext]_allVars
-----------------------------------------------------------------------------
\* A page flushPages has marked clean holds on the disk what the tree has in
\* memory, in order, however the flush and the puts interleave: except the page
\* at offset 0, whose start is the header; a page a split added and no put has
\* marked since; and one a put changed between its encode and its markClean.
CleanOnDisk ==
    \A p \in DOMAIN leaf \ (dirty \cup missed) :
        ~atOffsetZero(p) => disk[p] = encodeLeaf(leaf[p])

\* A start fails only on account of the first life: once a life that began
\* past offset 0 has its header on the disk, no page is ever written over it,
\* and every later start succeeds.
OpensAfterSynced ==
    [](base > 0 /\ synced \notin {Nothing, PageBytes} => [](up # "failed"))

=============================================================================
