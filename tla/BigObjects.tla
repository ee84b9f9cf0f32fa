------------------------------ MODULE BigObjects ------------------------------
(***************************************************************************)
(* Code objects: regions of big-object pages, allocated first fit and      *)
(* merged with their free neighbours when freed (gc/big-objects.c).        *)
(*                                                                         *)
(* A heap h has, besides the fields of other modules,                      *)
(*   pages        the BIBOP pages that are mapped from the O.S.            *)
(*   bibop        bibop[p], the arena id of page p                         *)
(*   region       region[b], the header of the region at address b         *)
(*   bigRegions   the regions, newest first                                *)
(*   desc         desc[d], the descriptor d                                *)
(*   freeBigObjs  the free list                                            *)
(*   bigObjs      bigObjs[g], the code objects of generation g             *)
(* data of a descriptor is the contents of the object, rounded to pages.   *)
(***************************************************************************)
EXTENDS Integers, Sequences, FiniteSets, FiniteSetsExt, SequencesExt, Functions

CONSTANTS
    NumGens,      \* heap->numGens
    PageSz,       \* BIBOP_PAGE_SZB, in words
    BOPageSz,     \* BIGOBJ_PAGE_SZB, in words
    NumPages      \* pages of the address space

MAX_NUM_GENS == 14
MIN_BOREGION_SZ == PageSz
Roundup(n, sz) == ((n + sz - 1) \div sz) * sz
BOPages(n) == Roundup(n, BOPageSz) \div BOPageSz

AID_UNMAPPED == <<"unmapped", 0>>
AID_BIGOBJ(g) == <<"bigobj", g>>
AID_BIGOBJ_HDR(g) == <<"bigobjhdr", g>>
BO_IS_HDR(aid) == aid[1] = "bigobjhdr"
IS_BIGOBJ_AID(aid) == aid[1] \in {"bigobj", "bigobjhdr"}
ADDR_TO_PAGEID(bibop, a) == bibop[a \div PageSz]

MarkRegion(bibop, base, sz, aid) ==
    [p \in DOMAIN bibop |->
       IF p \in base \div PageSz .. (base + sz) \div PageSz - 1 THEN aid ELSE bibop[p]]

\* the base of sz words of fresh pages: the lowest ones that are free
MEM_AllocMemObj(h, sz) ==
    Min({b \in 1 .. NumPages : (b .. b + sz \div PageSz - 1) \cap h.pages = {}}) * PageSz

MapPages(h, base, sz) == [h EXCEPT !.pages = @ \cup (base \div PageSz .. (base + sz) \div PageSz - 1)]

ADDR_TO_BOPAGE(region, a) == (a - region.firstPage) \div BOPageSz + 1
ADDR_TO_BODESC(region, a) == region.objMap[ADDR_TO_BOPAGE(region, a)]

BO_IS_FREE(dp) == dp.state = "free"
NewDesc(h) == Min((1 .. Cardinality(DOMAIN h.desc) + 1) \ DOMAIN h.desc)
AddDesc(h, d, dp) == [h EXCEPT !.desc = (d :> dp) @@ @]
RemoveBODesc(list, d) == SelectSeq(list, LAMBDA e : e # d)
AddBODesc(list, d) == <<d>> \o list

\* the pages from first on, n of them, belong to descriptor d
SetObjMap(region, first, n, d) ==
    [region EXCEPT !.objMap =
        [i \in 1 .. region.nPages |-> IF i \in first .. first + n - 1 THEN d ELSE @[i]]]

-----------------------------------------------------------------------------
\* A new region and the free descriptor of all of it; the caller marks the BIBOP.
BO_AllocRegion(h, req) ==
    LET npages == BOPages(Max({req, MIN_BOREGION_SZ}))
        sz == Roundup((npages + 1) * BOPageSz, PageSz)
        base == MEM_AllocMemObj(h, sz)
        d == NewDesc(h)
        region == [base |-> base, size |-> sz, firstPage |-> base + BOPageSz, nPages |-> npages,
                   nFree |-> npages, minGen |-> MAX_NUM_GENS,
                   objMap |-> [i \in 1 .. npages |-> d]]
    IN  [h |-> AddDesc([MapPages(h, base, sz) EXCEPT !.region = (base :> region) @@ @,
                                                     !.bigRegions = <<base>> \o @],
                       d, [obj |-> region.firstPage, size |-> npages * BOPageSz, state |-> "free",
                           gen |-> 0, region |-> base, data |-> <<>>]),
         d |-> d]

\* cut an object of n pages off the front of the free descriptor d
SplitDesc(h, d, n) ==
    LET new == NewDesc(h)
        dp == h.desc[d]
        region == h.region[dp.region]
    IN  [h |-> [AddDesc(h, new, dp) EXCEPT
                  !.desc[d].obj = @ + n * BOPageSz, !.desc[d].size = @ - n * BOPageSz,
                  !.region[dp.region] = SetObjMap(@, ADDR_TO_BOPAGE(region, dp.obj), n, new)],
         d |-> new]

\* the descriptor becomes a live object of generation g
UseDesc(h, d, g, sz, data) ==
    [h EXCEPT !.desc[d].size = sz, !.desc[d].state = "young", !.desc[d].gen = g,
              !.desc[d].data = data,
              !.region[h.desc[d].region].nFree = @ - BOPages(sz)]

\* the least generation of a region, and the BIBOP with it
SetMinGen(h, base, g) ==
    [h EXCEPT !.region[base].minGen = g,
              !.bibop = [MarkRegion(@, base, h.region[base].size, AID_BIGOBJ(g))
                         EXCEPT ![base \div PageSz] = AID_BIGOBJ_HDR(g)]]

LowerMinGen(h, base, g) == IF h.region[base].minGen > g THEN SetMinGen(h, base, g) ELSE h

\* The first free descriptor of total size tot or more.
FirstFit(h, tot) ==
    SelectInSeq(h.freeBigObjs, LAMBDA d : h.desc[d].size >= tot)

BO_Alloc(h, g, sz, data) ==
    LET n == BOPages(sz)
        tot == n * BOPageSz
        fit == FirstFit(h, tot)
        fresh == BO_AllocRegion(h, tot)
        whole(r) == r.h.desc[r.d].size = tot
        cut(r) == IF whole(r) THEN r ELSE SplitDesc(r.h, r.d, n)
        got == IF fit = 0
               THEN cut(IF whole(fresh) THEN fresh
                        ELSE [fresh EXCEPT !.h.freeBigObjs = AddBODesc(@, fresh.d)])
               ELSE LET d == h.freeBigObjs[fit]
                    IN  cut([h |-> IF h.desc[d].size = tot
                                   THEN [h EXCEPT !.freeBigObjs = RemoveBODesc(@, d)] ELSE h,
                             d |-> d])
        live == LowerMinGen(UseDesc(got.h, got.d, g, sz, data), got.h.desc[got.d].region, g)
    IN  [live EXCEPT !.bigObjs[g] = <<got.d>> \o @]

\* merge the free descriptor e into d; first is where the two begin
Absorb(h, d, e, first) ==
    LET ep == h.desc[e]
        base == ep.region
    IN  [h EXCEPT !.freeBigObjs = RemoveBODesc(@, e),
                  !.region[base] = SetObjMap(@, ADDR_TO_BOPAGE(@, ep.obj), BOPages(ep.size), d),
                  !.desc = [f \in DOMAIN @ \ {e} |->
                              IF f = d THEN [@[d] EXCEPT !.obj = first, !.size = @ + ep.size]
                              ELSE @[f]]]

\* Mutant: merged with the free object before it, the object still begins where it did.
BO_FreeKeepsObj(h, d) ==
    LET dp == h.desc[d]
        region == h.region[dp.region]
        firstPage == ADDR_TO_BOPAGE(region, dp.obj)
        lastPage == firstPage + BOPages(dp.size)
        lo == IF firstPage > 1 THEN region.objMap[firstPage - 1] ELSE d
        hi == IF lastPage <= region.nPages THEN region.objMap[lastPage] ELSE d
        h0 == [h EXCEPT !.desc[d].size = Roundup(@, BOPageSz)]
        h1 == IF BO_IS_FREE(h.desc[lo]) THEN Absorb(h0, d, lo, dp.obj) ELSE h0
        h2 == IF BO_IS_FREE(h.desc[hi]) THEN Absorb(h1, d, hi, h1.desc[d].obj) ELSE h1
    IN  [h2 EXCEPT !.desc[d].state = "free", !.desc[d].gen = 0, !.desc[d].data = <<>>,
                   !.region[dp.region].nFree = @ + BOPages(dp.size),
                   !.freeBigObjs = AddBODesc(@, d),
                   !.bigObjs[dp.gen] = RemoveBODesc(@, d)]

\* Free an object, merged with a free neighbour on either side.  Its
\* generation's list has lost it by then (ReclaimBigObjs in gc/major-gc.c).
BO_Free(h, d) ==
    LET dp == h.desc[d]
        region == h.region[dp.region]
        firstPage == ADDR_TO_BOPAGE(region, dp.obj)
        lastPage == firstPage + BOPages(dp.size)
        lo == IF firstPage > 1 THEN region.objMap[firstPage - 1] ELSE d
        hi == IF lastPage <= region.nPages THEN region.objMap[lastPage] ELSE d
        h0 == [h EXCEPT !.desc[d].size = Roundup(@, BOPageSz)]
        h1 == IF BO_IS_FREE(h.desc[lo]) THEN Absorb(h0, d, lo, h.desc[lo].obj) ELSE h0
        h2 == IF BO_IS_FREE(h.desc[hi]) THEN Absorb(h1, d, hi, h1.desc[d].obj) ELSE h1
    IN  [h2 EXCEPT !.desc[d].state = "free", !.desc[d].gen = 0, !.desc[d].data = <<>>,
                   !.region[dp.region].nFree = @ + BOPages(dp.size),
                   !.freeBigObjs = AddBODesc(@, d),
                   !.bigObjs[dp.gen] = RemoveBODesc(@, d)]

\* the header page of the region around page p
HdrPage(bibop, p) == Max({q \in 0 .. p : BO_IS_HDR(bibop[q])})

\* the descriptor of the object around an address
BO_GetDesc(h, a) ==
    ADDR_TO_BODESC(h.region[HdrPage(h.bibop, a \div PageSz) * PageSz], a)

-----------------------------------------------------------------------------
LiveDescs(h) == {d \in DOMAIN h.desc : ~ BO_IS_FREE(h.desc[d])}

PagesOfDesc(h, d) ==
    LET first == ADDR_TO_BOPAGE(h.region[h.desc[d].region], h.desc[d].obj)
    IN  first .. first + BOPages(h.desc[d].size) - 1

\* Every page of a region belongs to exactly the descriptor its map names,
\* the free ones are exactly the free list and never next to one another,
\* the count of free pages is exact, and an address in a live object leads
\* back to its descriptor and to a generation no younger than recorded.
Tiled(h) ==
    /\ \A b \in DOMAIN h.region : \A p \in 1 .. h.region[b].nPages :
         \A d \in DOMAIN h.desc :
            (h.desc[d].region = b /\ p \in PagesOfDesc(h, d)) <=> (h.region[b].objMap[p] = d)
    /\ \A b \in DOMAIN h.region : \A p \in 1 .. h.region[b].nPages - 1 :
         LET d == h.region[b].objMap[p]  e == h.region[b].objMap[p + 1]
         IN  BO_IS_FREE(h.desc[d]) /\ BO_IS_FREE(h.desc[e]) => d = e
    /\ \A b \in DOMAIN h.region : h.region[b].nFree =
         Cardinality({p \in 1 .. h.region[b].nPages : BO_IS_FREE(h.desc[h.region[b].objMap[p]])})
    /\ ToSet(h.freeBigObjs) = DOMAIN h.desc \ LiveDescs(h)
    /\ Len(h.freeBigObjs) = Cardinality(ToSet(h.freeBigObjs))
    /\ \A d \in LiveDescs(h) : \A a \in h.desc[d].obj .. h.desc[d].obj + h.desc[d].size - 1 :
         /\ BO_GetDesc(h, a) = d
         /\ IS_BIGOBJ_AID(ADDR_TO_PAGEID(h.bibop, a))
         /\ ADDR_TO_PAGEID(h.bibop, a)[2] <= h.desc[d].gen
===============================================================================
