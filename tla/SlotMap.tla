------------------------------ MODULE SlotMap ------------------------------
(***************************************************************************)
(* The slot map of the write log (common/src/slotmap.c): a bitmap of used  *)
(* and free chunks from which slotmap_reserve takes consecutive slots and  *)
(* to which slotmap_release returns them.  The bitmap is modelled by the   *)
(* set of its used slots.  slotmap_reserve is a loop over the bytes of the *)
(* bitmap: a step of the model is one iteration of the loop.  The slot map *)
(* is only used with the header of its log locked, so that no two calls    *)
(* overlap (LogStore models the lock).                                     *)
(***************************************************************************)
EXTENDS Integers, FiniteSets

CONSTANTS
    TotalSlots, \* total_slots, the number of chunks of the log
    ByteBits,   \* slots per byte of the bitmap (8 in the code)
    Sizes       \* the sizes of reservations that are requested

ASSUME SlotMapAssumption ==
    /\ TotalSlots \in Nat \ {0}
    /\ ByteBits \in Nat \ {0}
    /\ Sizes \subseteq Nat \ {0}

VARIABLES
    usemap,          \* the slots whose bit is set
    used_slots,
    first_used_slot,
    last_used_slot,
    search,          \* the loop of slotmap_reserve, or Idle
    held             \* the reservations the callers hold (not in the code)

mapVars == <<usemap, used_slots, first_used_slot, last_used_slot, search, held>>

Idle == [num |-> 0, byte |-> 0]

slot_map_bytes(n) == n \div ByteBits + (IF n % ByteBits = 0 THEN 0 ELSE 1)

MapBytes == slot_map_bytes(TotalSlots)

\* Bits of the last byte that stand for no slot are bits like the others.
BitSlots == 0 .. (MapBytes * ByteBits - 1)

Byte(b) == (b * ByteBits) .. (b * ByteBits + ByteBits - 1)

Slots(start, num) == start .. (start + num - 1)

MapInit ==
    /\ usemap = {}
    /\ used_slots = 0
    /\ first_used_slot = -1
    /\ last_used_slot = -1
    /\ search = Idle
    /\ held = {}

-----------------------------------------------------------------------------
(* slotmap_reserve *)

Reserving == search # Idle

\* Small reservations search from the first byte, larger ones from the byte of
\* the last used slot.
search_start(n) ==
    IF last_used_slot # -1 /\ slot_map_bytes(n) > 1
    THEN last_used_slot \div ByteBits
    ELSE 0

\* A reservation for which there are not enough free slots is refused at once.
ReserveStart(n) ==
    /\ ~Reserving
    /\ TotalSlots - used_slots >= n
    /\ search' = [num |-> n, byte |-> search_start(n)]
    /\ UNCHANGED <<usemap, used_slots, first_used_slot, last_used_slot, held>>

\* Set the bits of the slots found and return the first of them.
Take(start) ==
    LET end == start + search.num - 1 IN
    /\ usemap' = usemap \cup Slots(start, search.num)
    /\ used_slots' = used_slots + search.num
    /\ first_used_slot' = IF first_used_slot = -1 \/ start < first_used_slot
                          THEN start ELSE first_used_slot
    /\ last_used_slot' = IF last_used_slot = -1 \/ end > last_used_slot
                         THEN end ELSE last_used_slot
    /\ held' = held \cup {[start |-> start, num |-> search.num]}
    /\ search' = Idle

Advance(byte) ==
    /\ search' = [search EXCEPT !.byte = byte]
    /\ UNCHANGED <<usemap, used_slots, first_used_slot, last_used_slot, held>>

Scanning == Reserving /\ search.byte < MapBytes

Full(b) == Byte(b) \subseteq usemap

Empty(b) == Byte(b) \cap usemap = {}

\* current byte is completely occupied
SkipByte ==
    /\ Scanning
    /\ Full(search.byte)
    /\ Advance(search.byte + 1)

WholeBytes ==
    /\ slot_map_bytes(search.num) > 1
    /\ search.byte + slot_map_bytes(search.num) <= MapBytes

\* look for slot_bytes consecutive zero bytes; the byte that ends a shorter run
\* is not looked at again
ScanBytes ==
    LET b == search.byte
        slot_bytes == slot_map_bytes(search.num)
    IN  /\ Scanning
        /\ ~Full(b)
        /\ WholeBytes
        /\ \E run_count \in 0 .. slot_bytes :
              /\ \A i \in 0 .. run_count - 1 : Empty(b + i)
              /\ IF run_count = slot_bytes
                 THEN Take(b * ByteBits)
                 ELSE ~Empty(b + run_count) /\ Advance(b + run_count + 1)

FreeBits(b, start, num) ==
    /\ start + num <= ByteBits
    /\ Slots(b * ByteBits + start, num) \cap usemap = {}

\* find_consecutive_zero_bits: the first of the longest runs of zero bits.
LongestRun(b, start, num) ==
    /\ FreeBits(b, start, num)
    /\ \A s \in 0 .. ByteBits - 1, n \in 1 .. ByteBits :
          FreeBits(b, s, n) => n < num \/ (n = num /\ start <= s)

\* A mutant: the run of the next byte may be anywhere in it.
MutRunGoesOn(b, start, num) ==
    /\ b + 1 < MapBytes
    /\ start = ByteBits - num
    /\ \E s \in 0 .. ByteBits - 1, n \in 1 .. ByteBits :
          LongestRun(b + 1, s, n) /\ n >= search.num - num

\* The run goes on in the next byte: it is at the end of its byte, and the longest
\* run of the next byte is at its beginning and long enough.
RunGoesOn(b, start, num) ==
    /\ b + 1 < MapBytes
    /\ start = ByteBits - num
    /\ \E n \in 1 .. ByteBits : LongestRun(b + 1, 0, n) /\ n >= search.num - num

\* need at most 8 bits, spanning at most two bytes
ScanBits ==
    LET b == search.byte IN
    /\ Scanning
    /\ ~Full(b)
    /\ ~WholeBytes
    /\ \E start \in 0 .. ByteBits - 1, free_bits \in 1 .. ByteBits :
          /\ LongestRun(b, start, free_bits)
          /\ IF free_bits >= search.num \/ RunGoesOn(b, start, free_bits)
             THEN Take(b * ByteBits + start)
             ELSE Advance(b + 1)

\* did not find enough consecutive free slots
ReserveFail ==
    /\ Reserving
    /\ search.byte >= MapBytes
    /\ search' = Idle
    /\ UNCHANGED <<usemap, used_slots, first_used_slot, last_used_slot, held>>

-----------------------------------------------------------------------------
(* slotmap_release *)

\* The first used slot after s, and -1 when the search stops at total_slots (it
\* starts past total_slots when s does).
NextUsed(used, s) ==
    IF \E i \in used : i > s /\ i < TotalSlots
    THEN CHOOSE i \in used : i > s /\ \A j \in used : j > s => i <= j
    ELSE IF s >= TotalSlots THEN s + 1 ELSE -1

\* The last used slot before s, or -1.
PrevUsed(used, s) ==
    IF \E i \in used : i < s
    THEN CHOOSE i \in used : i < s /\ \A j \in used : j < s => j <= i
    ELSE -1

\* What is left of a reservation when num slots from start are given back.
Rest(h, start, num) ==
    {r \in {[start |-> h.start, num |-> start - h.start],
           [start |-> start + num, num |-> h.start + h.num - (start + num)]} : r.num > 0}

\* A caller gives back a reservation it holds, or a piece of it: the extents that
\* are freed are pieces of those that were written.  When the first used slot is
\* released, the code computes the new one and stores it in last_used_slot.
Release(h, start, num) ==
    LET used == usemap \ Slots(start, num)
        end  == start + num - 1
        last == IF start = first_used_slot THEN NextUsed(used, end) ELSE last_used_slot
    IN  /\ ~Reserving
        /\ h.start <= start /\ start + num <= h.start + h.num
        /\ start \in usemap
        /\ usemap' = used
        /\ used_slots' = used_slots - num
        /\ IF used_slots' = 0
           THEN first_used_slot' = -1 /\ last_used_slot' = -1
           ELSE /\ first_used_slot' = first_used_slot
                /\ last_used_slot' = IF end = last THEN PrevUsed(used, start) ELSE last
        /\ held' = (held \ {h}) \cup Rest(h, start, num)
        /\ UNCHANGED search

ClearMap ==
    /\ ~Reserving
    /\ usemap' = {}
    /\ used_slots' = 0
    /\ first_used_slot' = -1
    /\ last_used_slot' = -1
    /\ held' = {}
    /\ UNCHANGED search

MapNext ==
    \/ \E n \in Sizes : ReserveStart(n)
    \/ SkipByte
    \/ ScanBytes
    \/ ScanBits
    \/ ReserveFail
    \/ \E h \in held : \E start \in Slots(h.start, h.num), num \in 1 .. h.num :
          Release(h, start, num)
    \/ ClearMap

MapSpec == MapInit /\ [][MapNext]_mapVars

-----------------------------------------------------------------------------
(* Properties *)

Reservations == [start : BitSlots, num : Nat \ {0}]

\* Type invariant of the slot map.
MapTypeOK ==
    /\ usemap \subseteq BitSlots
    /\ used_slots \in Nat
    /\ first_used_slot \in BitSlots \cup {-1}
    /\ last_used_slot \in -1 .. MapBytes * ByteBits
    /\ search = Idle \/ search \in [num : Sizes, byte : 0 .. MapBytes]
    /\ held \subseteq Reservations

\* The chunks of a log belong to one reservation each: two calls of
\* slotmap_reserve never return a common slot, and a bit is set for exactly
\* the slots that somebody holds.
NoSharedSlot ==
    /\ \A g, h \in held : g # h => Slots(g.start, g.num) \cap Slots(h.start, h.num) = {}
    /\ usemap = UNION {Slots(h.start, h.num) : h \in held}

\* The counter on which slotmap_reserve bases its early refusal is the number
\* of set bits.
UsedExact == used_slots = Cardinality(usemap)

\* slotmap_reserve stays inside the memory of the map: what it returns, and sets, are
\* bits of the bytes that slotmap_init cleared.  They need not be slots: when the
\* number of slots is not a multiple of the bits of a byte (init_log_header does not
\* round it), the bits of the last byte that stand for no slot are given out too.
InBitmap == \A h \in held : h.start + h.num <= MapBytes * ByteBits

\* A reservation of at most a byte fails only when no byte has enough
\* consecutive free bits.
SmallFits ==
    [][ReserveFail /\ search.num <= ByteBits =>
         \A b \in 0 .. MapBytes - 1, s \in 0 .. ByteBits - 1 : ~FreeBits(b, s, search.num)]_mapVars
=============================================================================
