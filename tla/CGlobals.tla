------------------------------- MODULE CGlobals -------------------------------
(***************************************************************************)
(* The C symbols ML values may refer to (gc/c-globals-tbl.c), the export   *)
(* table that numbers the ones an image uses, and the address table of     *)
(* gc/addr-hash.c.                                                         *)
(*                                                                         *)
(* A hash table is a sequence of chains, a chain a sequence whose head is  *)
(* the bucket.  Addresses are word addresses.                              *)
(***************************************************************************)
EXTENDS Integers, Sequences, FiniteSets, SequencesExt

CONSTANTS
    HASH_STRING,   \* HASH_STRING[name]
    TableSize0,    \* the first size of the symbol tables (64)
    ExportSize0,   \* the first size of an export table (32)
    ItemMapSize0,  \* the first size of its item map (64)
    Buckets0       \* the least number of buckets of an address table (16)

ML_unit == <<"int", 0>>

Bucket(hash, sz) == (hash % sz) + 1        \* sz is a power of two

\* the items of all chains, in the order the code meets them, rehashed
Rehash(chains, ix(_), sz) ==
    [n \in 1 .. sz |->
       Reverse(SelectSeq(FlattenSeq(chains), LAMBDA p : Bucket(ix(p), sz) = n))]

Push(chains, n, p) == [chains EXCEPT ![n] = <<p>> \o @]

EmptyTables == [SymbolTable |-> <<>>, AddrTable |-> <<>>, TableSize |-> 0, NumSymbols |-> 0,
                died |-> FALSE]

\* double the tables, rehashing every item
GrowTables(t) ==
    LET sz == IF t.TableSize = 0 THEN TableSize0 ELSE 2 * t.TableSize
    IN  [t EXCEPT !.SymbolTable = Rehash(@, LAMBDA p : HASH_STRING[p.name], sz),
                  !.AddrTable = Rehash(@, LAMBDA p : p.addr, sz),
                  !.TableSize = sz]

\* A name or an address defined twice is the end of the program.
RecordCSymbol(t0, name, addr) ==
    LET t == IF t0.TableSize = t0.NumSymbols THEN GrowTables(t0) ELSE t0
        n == Bucket(HASH_STRING[name], t.TableSize)
        m == Bucket(addr, t.TableSize)
        named == {p \in ToSet(t.SymbolTable[n]) : p.name = name}
        item == [name |-> name, addr |-> addr]
    IN  CASE \E p \in named : p.addr # addr -> [t EXCEPT !.died = TRUE]
          [] \E p \in named : p.addr = addr -> t
          [] \E p \in ToSet(t.AddrTable[m]) : p.addr = addr -> [t EXCEPT !.died = TRUE]
          [] OTHER -> [t EXCEPT !.SymbolTable = Push(@, n, item), !.AddrTable = Push(@, m, item),
                                !.NumSymbols = @ + 1]

\* the item of address a: a singleton, or empty when it is not registered
AddrItem(t, a) == {p \in ToSet(t.AddrTable[Bucket(a, t.TableSize)]) : p.addr = a}

\* the address of a name in this run-time system, or ML_unit
ImportCSymbol(t, name) ==
    LET found == {p \in ToSet(t.SymbolTable[Bucket(HASH_STRING[name], t.TableSize)]) : p.name = name}
    IN  IF found = {} THEN ML_unit ELSE <<"ptr", (CHOOSE p \in found : TRUE).addr>>

-----------------------------------------------------------------------------
(***************************************************************************)
(* The export table: table maps addresses to indices, itemMap indices to   *)
(* items; itemMapSize is the room of itemMap.                              *)
(***************************************************************************)
NewExportTbl == [table |-> <<>>, tableSize |-> 0, itemMap |-> <<>>, itemMapSize |-> 0]

numItems(x) == Len(x.itemMap)

GrowTable(x) ==
    LET sz == IF x.tableSize = 0 THEN ExportSize0 ELSE 2 * x.tableSize
    IN  [x EXCEPT !.table = Rehash(@, LAMBDA p : p.item.addr, sz), !.tableSize = sz]

\* The table after address a was added, and the word that stands for it.  An
\* address that is not registered is reported, and becomes unit.
ExportCSymbol(t, x0, a) ==
    LET x == IF numItems(x0) >= x0.tableSize THEN GrowTable(x0) ELSE x0
        h == Bucket(a, x.tableSize)
        old == {p \in ToSet(x.table[h]) : p.item.addr = a}
        q == CHOOSE p \in AddrItem(t, a) : TRUE
        index == numItems(x)
    IN  IF old # {} THEN [x |-> x, w |-> <<"ext", (CHOOSE p \in old : TRUE).index>>]
        ELSE IF AddrItem(t, a) = {} THEN [x |-> x, w |-> ML_unit]
        ELSE [x |-> [x EXCEPT
                 !.itemMap = Append(@, q),
                 !.itemMapSize = IF @ > index THEN @ ELSE IF @ = 0 THEN ItemMapSize0 ELSE 2 * @,
                 !.table = Push(@, h, [item |-> q, index |-> index])],
              w |-> <<"ext", index>>]

AddrOfCSymbol(x, w) == <<"ptr", x.itemMap[w[2] + 1].addr>>
ExportedSymbols(x) == [i \in 1 .. numItems(x) |-> x.itemMap[i].name]

-----------------------------------------------------------------------------
(***************************************************************************)
(* The address table.                                                      *)
(***************************************************************************)
MakeAddrTbl(ignoreSz, size) ==
    LET n == CHOOSE b \in {Buckets0 * 2^k : k \in 0 .. size} :
               b >= size /\ (b > Buckets0 => b \div 2 < size)
    IN  [buckets |-> [i \in 1 .. n |-> <<>>], ignoreSz |-> ignoreSz, size |-> n]

AddrHash(tbl, a) == Bucket(a \div tbl.ignoreSz, tbl.size)

AddrTblInsert(tbl, a, obj) ==
    IF \E p \in ToSet(tbl.buckets[AddrHash(tbl, a)]) : p.addr = a THEN tbl
    ELSE [tbl EXCEPT !.buckets = Push(@, AddrHash(tbl, a), [addr |-> a, obj |-> obj])]

AddrTblLookup(tbl, a) ==
    (CHOOSE p \in ToSet(tbl.buckets[AddrHash(tbl, a)]) : p.addr = a).obj
===============================================================================
