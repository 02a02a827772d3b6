----------------------------- MODULE PageTable -----------------------------
(***************************************************************************)
(* The inverted page table of myalloc.c and the functions that move pages  *)
(* between frames.                                                         *)
(*                                                                         *)
(* A thread sees its page p at address p of mem_block, so a page is usable *)
(* only when it is in the frame of its own number.  The table has a row    *)
(* per tid and says in which frame each of its pages is now.  No thread    *)
(* has row 0.                                                              *)
(*                                                                         *)
(* The memory is a record:                                                 *)
(*   table  row -> page -> frame, or OUT_OF_BOUNDS or UNASSIGNED           *)
(*   used   the frames note_page_used has been told of                     *)
(*   data   frame -> what it holds                                         *)
(*   open   the frames that are not PROT_NONE                              *)
(*   slots  how many slots of the swap file are taken                      *)
(* Every entry written has location 0: the one call that would write       *)
(* another is in the branch of swap for entries that have one already.     *)
(***************************************************************************)
EXTENDS Integers

CONSTANTS
  NUM_PROCESSES,        (* the rows of the table, 64 in the code           *)
  Tids,                 (* the threads                                     *)
  NUM_USER_PAGES,       (* 1907 in the code                                *)
  Values                (* what a page can hold                            *)

ASSUME PageTableAssumption ==
  /\ NUM_PROCESSES \in Nat \ {0}
  /\ Tids \subseteq 1 .. NUM_PROCESSES - 1
  /\ NUM_USER_PAGES \in Nat \ {0}
  /\ Values # {}

Rows   == 0 .. NUM_PROCESSES - 1
Frames == 0 .. NUM_USER_PAGES - 1

OUT_OF_BOUNDS       == -1
UNASSIGNED_IN_TABLE == -2

Memory ==
  [table : [Rows -> [Frames -> Frames \cup {OUT_OF_BOUNDS,
                                            UNASSIGNED_IN_TABLE}]],
   used  : SUBSET Frames,
   data  : [Frames -> Values],
   open  : SUBSET Frames,
   slots : 0 .. 2 * NUM_USER_PAGES]

(* pages_init: an empty table, memory fresh from the system.               *)
FreshMemory(zero) ==
  [table |-> [r \in Rows |-> [p \in Frames |->
                IF p = 0 THEN OUT_OF_BOUNDS ELSE UNASSIGNED_IN_TABLE]],
   used  |-> {},
   data  |-> [f \in Frames |-> zero],
   open  |-> Frames,
   slots |-> 0]

Assigned(m, r, p) == m.table[r][p] \in Frames

(* The frames a thread's row of the table names.  A slip one could make:   *)
(* think of those in place alone.                                          *)
FramesInPlace(m, t) == {p \in Frames : m.table[t][p] = p}

FramesOf(m, t) == {m.table[t][p] : p \in {p \in Frames : Assigned(m, t, p)}}

-----------------------------------------------------------------------------
(* get_unused_page: the first frame not noted as used, or, when there is   *)
(* none, whichever naive_evictor draws.  The evictor copies the frame into *)
(* the next slot of the swap file, leaves it unprotected, and changes no   *)
(* table entry.  With the swap file full the lseek fails and the process   *)
(* exits.                                                                  *)
Unused(m) == Frames \ m.used

SwapFileFull(m) == Unused(m) = {} /\ m.slots = 2 * NUM_USER_PAGES

(* A slip one could make: go on with the swap file full.                   *)
MayEvictUnchecked(m, f) == f \in Frames

MayEvict(m, f) == f \in Frames /\ m.slots < 2 * NUM_USER_PAGES

Evict(m, f) == [m EXCEPT !.open = @ \cup {f}, !.slots = @ + 1]

MayObtain(m, f) ==
  IF Unused(m) # {}
  THEN f \in Unused(m) /\ \A g \in Unused(m) : f <= g
  ELSE MayEvict(m, f)

(* A slip one could make: hand the frame out without noting it.            *)
ObtainUnnoted(m, f) == m

Obtain(m, f) ==
  IF Unused(m) # {} THEN [m EXCEPT !.used = @ \cup {f}] ELSE Evict(m, f)

(* update_table_entry, which notes the page's own number as used.          *)
UpdateEntry(m, t, page, frame) ==
  [m EXCEPT !.table[t][page] = frame, !.used = @ \cup {page}]

(* get_active_tid finds the first thread whose page of this number is in   *)
(* place, and gives -1 when it finds none.                                 *)
Actives(m, page) == {r \in Rows : m.table[r][page] = page}

IsActiveTid(m, page, t) ==
  IF Actives(m, page) = {} THEN t = -1
  ELSE t \in Actives(m, page) /\ \A u \in Actives(m, page) : t <= u

(* swap_pages: exchange two frames, close the one and open the other, and  *)
(* bring the table up to date for the thread found to have been in place   *)
(* and for the one coming in.  Two slips one could make: copy without the  *)
(* pivot, which loses a page, and forget the former's entry.               *)
ExchangedOneWay(m, in, out) ==
  [m EXCEPT !.data = [@ EXCEPT ![in] = m.data[out]],
            !.open = (@ \ {out}) \cup {in}]

Exchanged(m, in, out) ==
  [m EXCEPT !.data = [@ EXCEPT ![in] = m.data[out], ![out] = m.data[in]],
            !.open = (@ \ {out}) \cup {in}]

SwapPagesForgetting(m, in, t, out) ==
  UpdateEntry(Exchanged(m, in, out), t, in, in)

SwapPages(m, in, t, out) ==
  LET active == Actives(m, in)
      in_tid == CHOOSE u \in active : IsActiveTid(m, in, u)
      moved  == Exchanged(m, in, out)
  IN  UpdateEntry(IF active = {} THEN moved
                  ELSE UpdateEntry(moved, in_tid, in, out),
                  t, in, in)

(* swap, for a page in memory and a row of the table: f is the unused      *)
(* frame it obtains when the row names no frame for the page yet.          *)
MaySwap(m, page, r, f) ==
  IF Assigned(m, r, page) THEN f = m.table[r][page] ELSE MayObtain(m, f)

Fetched(m, page, r, f) == IF Assigned(m, r, page) THEN m ELSE Obtain(m, f)

Swap(m, page, r, f) == SwapPages(Fetched(m, page, r, f), page, r, f)

(* swap_pages opens the frame it copies to and not the one it copies from: *)
(* if that is closed, the copy faults.                                     *)
Readable(m, page, r, f) == f \in Fetched(m, page, r, f).open \cup {page}

(* A slip one could make: open the incoming thread's frames and leave      *)
(* those of the outgoing one open.                                         *)
OnlyUnprotect(m, out, in) == [m EXCEPT !.open = @ \cup FramesOf(m, in)]

(* swap_protection, at every switch of threads: close the frames of the    *)
(* one, open those of the other.  The addresses computed for entries that  *)
(* are not assigned lie outside the user pages.                            *)
SwapProtection(m, out, in) ==
  [m EXCEPT !.open = (@ \ FramesOf(m, out)) \cup FramesOf(m, in)]
=============================================================================
