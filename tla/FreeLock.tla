------------------------------ MODULE FreeLock ------------------------------
(***************************************************************************)
(* The one-slot channel in shared memory of                                *)
(* source/extention/freelock_smem.cpp: a FreeLockShareMemWriter and a      *)
(* FreeLockShareMemReader in two processes, with two atomic 8-bit numbers  *)
(* in place of a lock.  current_uid counts what was written, already_uid   *)
(* repeats what was read; -1 stands both for "nothing yet" and "closed".   *)
(*                                                                         *)
(* The payload is copied in two halves, so that a torn copy is visible;    *)
(* message number n is the slot with both halves n.  Both ends use the     *)
(* protocol of the examples: writable() before write_some(), readable()    *)
(* before read_some().  Loads and stores take effect in program order, as  *)
(* on x86.                                                                 *)
(***************************************************************************)
EXTENDS Integers

CONSTANTS
    INT8_MAX,     \* where the numbers wrap: 127
    MaxMessages,  \* bound on the messages written
    MaxOpens      \* bound on how often the end that does not own the
                  \* memory is opened

ASSUME Int8Assumption == INT8_MAX \in Nat /\ INT8_MAX >= 2
ASSUME FreeLockBounds == MaxMessages \in Nat /\ MaxOpens \in Nat

VARIABLES
    opener,       \* the end constructed with owner = true
    current_uid,
    already_uid,
    lo, hi,       \* the two halves of the slot
    wpc,          \* where the writer is
    rpc,          \* where the reader is
    rlo,          \* the half the reader has copied
    rcur,         \* the current_uid it has loaded
    opens,        \* how often the other end was opened
    sent,         \* number of messages written
    got           \* number of the message read last

freeLockVars ==
    <<opener, current_uid, already_uid, lo, hi, wpc, rpc, rlo, rcur, opens, sent, got>>

\* The owner's constructor has created and reset the memory.
FreeLockInit ==
    /\ opener \in {"writer", "reader"}
    /\ current_uid = -1
    /\ already_uid = -1
    /\ lo = 0 /\ hi = 0
    /\ wpc = IF opener = "writer" THEN "open" ELSE "closed"
    /\ rpc = IF opener = "reader" THEN "open" ELSE "closed"
    /\ rlo = 0
    /\ rcur = -1
    /\ opens = 0
    /\ sent = 0
    /\ got = 0

-----------------------------------------------------------------------------
(* The writer. *)

\* An owner that closes removes the memory's name; until then the other end
\* can open it, and does not reset anything.
OpenWriter ==
    /\ opener = "reader" /\ rpc # "closed"
    /\ wpc = "closed"
    /\ opens < MaxOpens
    /\ opens' = opens + 1
    /\ wpc' = "open"
    /\ UNCHANGED <<opener, current_uid, already_uid, lo, hi, rpc, rlo, rcur,
                   sent, got>>

CloseWriter ==
    /\ wpc = "open"
    /\ current_uid' = -1
    /\ wpc' = "closed"
    /\ UNCHANGED <<opener, already_uid, lo, hi, rpc, rlo, rcur, opens, sent, got>>

\* Mutant: the writer does not wait for the reader.
writable_Always ==
    /\ wpc = "open"
    /\ sent < MaxMessages
    /\ wpc' = "copyLo"
    /\ UNCHANGED <<opener, current_uid, already_uid, lo, hi, rpc, rlo, rcur,
                   opens, sent, got>>

writable ==
    /\ wpc = "open"
    /\ sent < MaxMessages
    /\ current_uid = already_uid
    /\ wpc' = "copyLo"
    /\ UNCHANGED <<opener, current_uid, already_uid, lo, hi, rpc, rlo, rcur,
                   opens, sent, got>>

WriteLo ==
    /\ wpc = "copyLo"
    /\ lo' = sent + 1
    /\ wpc' = "copyHi"
    /\ UNCHANGED <<opener, current_uid, already_uid, hi, rpc, rlo, rcur, opens,
                   sent, got>>

WriteHi ==
    /\ wpc = "copyHi"
    /\ hi' = sent + 1
    /\ wpc' = "publish"
    /\ UNCHANGED <<opener, current_uid, already_uid, lo, rpc, rlo, rcur, opens,
                   sent, got>>

\* The number after uid: 127 is followed by 1.
NextUid(uid) == IF uid = INT8_MAX THEN 1 ELSE uid + 1

Publish ==
    /\ wpc = "publish"
    /\ current_uid' = NextUid(current_uid)
    /\ sent' = sent + 1
    /\ wpc' = "open"
    /\ UNCHANGED <<opener, already_uid, lo, hi, rpc, rlo, rcur, opens, got>>

-----------------------------------------------------------------------------
(* The reader. *)

OpenReader ==
    /\ opener = "writer" /\ wpc # "closed"
    /\ rpc = "closed"
    /\ opens < MaxOpens
    /\ opens' = opens + 1
    /\ rpc' = "open"
    /\ UNCHANGED <<opener, current_uid, already_uid, lo, hi, wpc, rlo, rcur,
                   sent, got>>

CloseReader ==
    /\ rpc = "open"
    /\ already_uid' = -1
    /\ rpc' = "closed"
    /\ UNCHANGED <<opener, current_uid, lo, hi, wpc, rlo, rcur, opens, sent, got>>

\* Mutant: any difference counts, also that of a closed writer.
IsReadable_Differs(a, b) == a # b

\* Mutant: the wrapped number is not recognised.
IsReadable_NoWrap(a, b) == a > b

IsReadable(a, b) == a > b \/ (b = INT8_MAX /\ a = 1)

readable ==
    /\ rpc = "open"
    /\ IsReadable(current_uid, already_uid)
    /\ rpc' = "copyLo"
    /\ UNCHANGED <<opener, current_uid, already_uid, lo, hi, wpc, rlo, rcur,
                   opens, sent, got>>

ReadLo ==
    /\ rpc = "copyLo"
    /\ rlo' = lo
    /\ rpc' = "copyHi"
    /\ UNCHANGED <<opener, current_uid, already_uid, lo, hi, wpc, rcur, opens,
                   sent, got>>

ReadHi ==
    /\ rpc = "copyHi"
    /\ got' = hi
    /\ rpc' = "load"
    /\ UNCHANGED <<opener, current_uid, already_uid, lo, hi, wpc, rlo, rcur,
                   opens, sent>>

LoadUid ==
    /\ rpc = "load"
    /\ rcur' = current_uid
    /\ rpc' = "release"
    /\ UNCHANGED <<opener, current_uid, already_uid, lo, hi, wpc, rlo, opens,
                   sent, got>>

Release ==
    /\ rpc = "release"
    /\ already_uid' = rcur
    /\ rpc' = "open"
    /\ UNCHANGED <<opener, current_uid, lo, hi, wpc, rlo, rcur, opens, sent, got>>

-----------------------------------------------------------------------------
Writing == WriteLo \/ WriteHi \/ Publish
Reading == readable \/ ReadLo \/ ReadHi \/ LoadUid \/ Release

FreeLockNext ==
    \/ OpenWriter \/ CloseWriter \/ writable \/ Writing
    \/ OpenReader \/ CloseReader \/ Reading

FreeLockSpec == FreeLockInit /\ [][FreeLockNext]_freeLockVars

(* Fairness: a write that was begun goes on, and the reader polls, as the   *)
(* loops of the examples do.  Nobody has to open, close or write.           *)
FreeLockFairSpec == FreeLockSpec /\ WF_freeLockVars(Writing) /\ WF_freeLockVars(Reading)

-----------------------------------------------------------------------------
FreeLockTypeOK ==
    /\ opener \in {"writer", "reader"}
    /\ current_uid \in -1 .. INT8_MAX
    /\ already_uid \in -1 .. INT8_MAX
    /\ lo \in 0 .. MaxMessages
    /\ hi \in 0 .. MaxMessages
    /\ wpc \in {"closed", "open", "copyLo", "copyHi", "publish"}
    /\ rpc \in {"closed", "open", "copyLo", "copyHi", "load", "release"}
    /\ rlo \in 0 .. MaxMessages
    /\ rcur \in -1 .. INT8_MAX
    /\ opens \in 0 .. MaxOpens
    /\ sent \in 0 .. MaxMessages
    /\ got \in 0 .. MaxMessages

WriterInSlot == wpc \in {"copyLo", "copyHi", "publish"}
ReaderInSlot == rpc \in {"copyLo", "copyHi", "load", "release"}

(* Mutual exclusion without a lock: the writer and the reader are never in   *)
(* the slot at the same time, through every wrap of the numbers and with     *)
(* either end closing at any moment between two calls.                       *)
NoOverlap == ~(WriterInSlot /\ ReaderInSlot)

(* A read returns one whole message, the successor of the message returned   *)
(* before: none torn, none repeated, none left out.                          *)
ReadsInOrder ==
    [][rpc = "copyHi" /\ rpc' = "load" => got' = got + 1 /\ rlo = got']_freeLockVars

(* Back-pressure: while both ends are open the writer is at most one message *)
(* ahead of the reader, and it enters the slot only when it is not ahead.    *)
OneInFlight ==
    wpc # "closed" /\ rpc # "closed" =>
        /\ got \in {sent - 1, sent}
        /\ WriterInSlot => got = sent

(* A message that is written while both ends are open is read, unless an end *)
(* closes first; the numbers never meet in a way that leaves both sides      *)
(* waiting.                                                                  *)
Delivered ==
    \A n \in 1 .. MaxMessages :
        (sent >= n /\ wpc # "closed" /\ rpc # "closed")
            ~> (got >= n \/ wpc = "closed" \/ rpc = "closed")

=============================================================================
