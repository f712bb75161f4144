---------------------------- MODULE MemoryManager ----------------------------
(***************************************************************************)
(* The memory under the caches: pages that come into being when something  *)
(* is loaded, and accesses of several bytes made of single ones.  memory   *)
(* maps each page that exists to its bytes; the two-level table of the     *)
(* code is one map here.  The operators give the memory after a call.      *)
(* A definition named Bad... is a mutant of the one after it.              *)
(***************************************************************************)
EXTENDS Integers, Sequences

CONSTANTS
    AddrMod,        \* addresses are 0 .. AddrMod - 1 (2^32)
    PageSize,       \* 4096
    Byte            \* contents of a byte; 0 is one

ASSUME ByteAssumption == 0 \in Byte
ASSUME PageAssumption ==
    PageSize \in Nat \ {0} /\ AddrMod \in Nat \ {0} /\ AddrMod % PageSize = 0

Addr == 0 .. AddrMod - 1
Page == 0 .. AddrMod \div PageSize - 1
Memory == UNION {[pages -> [0 .. PageSize - 1 -> Byte]] : pages \in SUBSET Page}

\* getFirstEntryId and getSecondEntryId, and getPageOffset.
PageOf(addr) == (addr % AddrMod) \div PageSize
PageOffset(addr) == addr % PageSize

isAddrExist(mem, addr) == PageOf(addr) \in DOMAIN mem

NewPage == [k \in 0 .. PageSize - 1 |-> 0]

\* Clears a page that is there already.
BadaddPage(mem, addr) ==
    [p \in DOMAIN mem \cup {PageOf(addr)} |->
        IF p = PageOf(addr) THEN NewPage ELSE mem[p]]
addPage(mem, addr) ==
    [p \in DOMAIN mem \cup {PageOf(addr)} |->
        IF p \in DOMAIN mem THEN mem[p] ELSE NewPage]

\* setByte and setByteNoCache drop a byte for which there is no page.
setByte(mem, addr, val) ==
    IF isAddrExist(mem, addr)
    THEN [mem EXCEPT ![PageOf(addr)][PageOffset(addr)] = val] ELSE mem

\* getByte gives 0 where there is no page.
getByte(mem, addr) ==
    IF isAddrExist(mem, addr) THEN mem[PageOf(addr)][PageOffset(addr)] ELSE 0

\* getShort, getInt and getLong put single bytes together.
getBytes(mem, addr, len) == [n \in 1 .. len |-> getByte(mem, addr + n - 1)]

\* setShort, setInt and setLong: one setByte after the other.
setBytes(mem, addr, val) ==
    LET after[n \in 0 .. Len(val)] ==
            IF n = 0 THEN mem ELSE setByte(after[n - 1], addr + n - 1, val[n])
    IN  after[Len(val)]

\* Does not look.
Badaccepts(mem, addr) == TRUE
\* They look at the page of the first byte only.
accepts(mem, addr) == isAddrExist(mem, addr)
-----------------------------------------------------------------------------
\* A segment of an ELF file: `data` for its first bytes, zeroes up to memsz.
\* Its address and its size have 64 bits, as has their sum.
Segment == [addr : Nat, data : Seq(Byte), memsz : Nat]

\* What ends in exit(-1); that the last byte is refused is the code's.
TooLarge(seg) == seg.addr + seg.memsz > AddrMod - 1
\* None of the first n segments is.
Loadable(segments, n) == \A k \in 1 .. n : ~TooLarge(segments[k])

\* loadElfToMemory, one segment that is not too large.
loadSegment(mem, seg) ==
    LET after[n \in 0 .. seg.memsz] ==
            IF n = 0 THEN mem
            ELSE LET p == seg.addr + n - 1
                 IN  setByte(addPage(after[n - 1], p), p,
                             IF n <= Len(seg.data) THEN seg.data[n] ELSE 0)
    IN  after[seg.memsz]

\* The segments in turn, up to the first that is too large.
loadElfToMemory(mem, segments) ==
    LET after[n \in 0 .. Len(segments)] ==
            IF n = 0 THEN mem
            ELSE IF Loadable(segments, n)
                 THEN loadSegment(after[n - 1], segments[n])
            ELSE after[n - 1]
    IN  after[Len(segments)]

\* Simulator::initStack: zeroes from the base downwards.
initStack(mem, base, size) ==
    LET after[n \in 0 .. size] ==
            IF n = 0 THEN mem
            ELSE LET p == base - (n - 1)
                 IN  setByte(addPage(after[n - 1], p), p, 0)
    IN  after[size]

addPages(mem, addrs) ==
    LET after[n \in 0 .. Len(addrs)] ==
            IF n = 0 THEN mem ELSE addPage(after[n - 1], addrs[n])
    IN  after[Len(addrs)]
=============================================================================
