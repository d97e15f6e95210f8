----------------------------- MODULE RadixTable -----------------------------
(***************************************************************************)
(* The radix match finder: how the positions of a block are sorted into    *)
(* lists, how a list is divided by the next byte, again and again, until   *)
(* each position is linked to the nearest earlier one with the longest     *)
(* match, and how the encoder reads the table (radix_engine.h, radix_mf.c, *)
(* radix_get.h).  Loops whose iterations do not disturb each other are     *)
(* written as functions of a list's positions.                             *)
(*                                                                         *)
(* A block b has text[i], 0 <= i < end, the positions below `start` being  *)
(* the overlap; depth, best, maxLen (RADIX_MAX_LENGTH) and struct are the  *)
(* table's parameters, limit and size those of its match buffers.          *)
(***************************************************************************)
EXTENDS Integers, Sequences, SequencesExt, FiniteSetsExt

CONSTANTS
  Letters,       \* the bytes that occur
  NullLink,      \* RADIX_NULL_LINK
  MaxRepeat,     \* MAX_REPEAT
  MaxBrute,      \* MAX_BRUTE_FORCE_LIST_SIZE
  StackSize,     \* STACK_SIZE
  MatchLenMax    \* kMatchLenMax

Radix8  == Cardinality(Letters)            \* RADIX8_TABLE_SIZE
Radix16 == Radix8 * Radix8                 \* RADIX16_TABLE_SIZE
Pairs   == Letters \X Letters

LOCAL Least(a, b) == IF a < b THEN a ELSE b
LOCAL Most(a, b)  == IF a > b THEN a ELSE b

Unknown == -1                              \* what memory behind the text holds
At(b, i) == IF i \in 0 .. b.end - 1 THEN b.text[i] ELSE Unknown
Pair(b, i) == <<At(b, i), At(b, i + 1)>>

Ascending(set, n) == SelectSeq([i \in 1 .. n + 1 |-> i - 1], LAMBDA i : i \in set)

(* The length, up to n, of the match between two places.                   *)
Common(b, i, j, n) ==
  LET differs == {k \in 0 .. n - 1 : At(b, i + k) # At(b, j + k)}
  IN  IF differs = {} THEN n ELSE Min(differs)

MaxDepth(b) == LET d == Least(b.depth, 255) IN d - (d % 2)

-----------------------------------------------------------------------------
(* RMF_bitpackInit.  The last pair of the block is linked, and is in no    *)
(* list.  Only a structured table has a length of its own before it is     *)
(* set: whatever was there.                                                *)
Null     == [link |-> NullLink, len |-> 0]
Early(b) == IF b.struct THEN b.maxLen ELSE 0

InitTable(heads, b) ==
  LET n        == b.end
      Same(i)  == {j \in 0 .. n - 3 : Pair(b, j) = Pair(b, i)}
      Prev(i)  == LET s == {j \in Same(i) : j < i}
                  IN  IF s = {} THEN heads[Pair(b, i)].head ELSE Max(s)
      starts   == Ascending({i \in 0 .. n - 3 : i = 0 \/ Prev(i) = NullLink}, n)
      Listed(r) == {j \in 0 .. n - 3 : Pair(b, j) = r}
      Entry(i) ==
        CASE i = 0 \/ i = n - 1 \/ Prev(i) = NullLink -> Null
          [] i = n - 2 /\ i # 0 /\ Prev(i) # NullLink -> [link |-> Prev(i), len |-> 2]
          [] OTHER -> [link |-> Prev(i), len |-> Early(b)]
  IN  IF n <= 2
      THEN [table |-> [i \in 0 .. n - 1 |-> Null], stack |-> <<>>, heads |-> heads]
      ELSE [table |-> [i \in 0 .. n - 1 |-> Entry(i)],
            stack |-> [k \in DOMAIN starts |-> Pair(b, starts[k])],
            heads |-> [r \in Pairs |->
                         IF Listed(r) = {} THEN heads[r]
                         ELSE [head  |-> Max(Listed(r)),
                               count |-> Cardinality(Listed(r))
                                           + (IF heads[r].head = NullLink \/ Pair(b, 0) = r
                                              THEN 0 ELSE heads[r].count)]]]

-----------------------------------------------------------------------------
(* Work on a list: s has the table t, the match buffer m, and `reach`, the *)
(* last byte of the text that was read.                                    *)
Reads(s, i) == [s EXCEPT !.reach = Most(@, i)]

SetMatch(s, i, link, len) == [s EXCEPT !.t[i] = [link |-> link, len |-> len]]

(* A chain: n elements from `first` on, each linked to the next.           *)
RECURSIVE Chain(_, _, _)
Chain(m, first, n) == <<first>> \o (IF n = 1 THEN <<>> ELSE Chain(m, m[first].next, n - 1))

RECURSIVE LinkedPositions(_, _, _)
LinkedPositions(t, first, n) ==
  <<first>> \o (IF n = 1 THEN <<>> ELSE LinkedPositions(t, t[first].link, n - 1))

(* Mutant of Relinked: the length is raised without moving the link.       *)
RelinkedKeeps(m, chain, key, depth) ==
  LET n == Len(chain)
      Next(i) == {j \in i + 1 .. n : key[j] = key[i]}
      linked  == {i \in 1 .. n : Next(i) # {}}
      where   == [p \in {chain[i] : i \in linked} |-> CHOOSE i \in linked : chain[i] = p]
  IN  [p \in DOMAIN where |-> [m[p] EXCEPT !.len = depth]] @@ m

(* A chain divided by a key: each element with a later one of its key is   *)
(* linked to that, at the new depth; the others keep what they have.       *)
Relinked(m, chain, key, depth) ==
  LET n == Len(chain)
      Next(i) == {j \in i + 1 .. n : key[j] = key[i]}
      linked  == {i \in 1 .. n : Next(i) # {}}
      where   == [p \in {chain[i] : i \in linked} |-> CHOOSE i \in linked : chain[i] = p]
  IN  [p \in DOMAIN where |->
         [m[p] EXCEPT !.next = chain[Min(Next(where[p]))], !.len = depth]] @@ m

(* The chains it is divided into, in the order of their first elements,    *)
(* which are among the first n.                                            *)
Divided(chain, key, n) ==
  LET firsts == {i \in 1 .. n : \A j \in 1 .. i - 1 : key[j] # key[i]}
  IN  [k \in 1 .. Cardinality(firsts) |->
         LET i == Ascending(firsts, n)[k]
         IN  [head |-> chain[i], count |-> Cardinality({j \in 1 .. Len(chain) : key[j] = key[i]})]]

(* The stack may not be able to take what a chain of n is divided into.    *)
Overflows(height, radixes, n) ==
  height > StackSize - radixes /\ n <= StackSize /\ height > StackSize - n

-----------------------------------------------------------------------------
(* RMF_bruteForce and RMF_bruteForceBuffered: for each element the longest *)
(* match among the later ones, and of these the first.  The first element  *)
(* in the overlap is the last but one to be looked at.                     *)
Longest(lens) ==
  LET top == Max({lens[j] : j \in DOMAIN lens} \cup {0})
  IN  IF top = 0 THEN 0 ELSE Min({j \in DOMAIN lens : lens[j] = top})

Tried(b, froms) ==
  {i \in 1 .. Len(froms) - 1 : \A k \in 2 .. i : froms[k] >= b.start}

BruteForce(s, b, link, n, depth, maxDepth) ==
  LET froms   == LinkedPositions(s.t, link, n)
      Lens(i) == [j \in i + 1 .. n |->
                    Common(b, froms[i] + depth, froms[j] + depth, maxDepth - depth)]
      Set(i, r) == IF Longest(Lens(i)) = 0 THEN r
                   ELSE SetMatch(r, froms[i], froms[Longest(Lens(i))],
                                 depth + Lens(i)[Longest(Lens(i))])
  IN  Reads(FoldSet(Set, s, Tried(b, froms)), froms[1] + maxDepth)

(* The character of an element that is in its four-byte cache.             *)
Char(b, m, p, slot) == At(b, m[p].from + m[p].at + slot)

(* The first comparisons are with the cached characters.                   *)
BruteForceBuffered(s, b, pos, n, slot, depth, maxDepth) ==
  LET chain   == Chain(s.m, pos, n)
      limit   == maxDepth - depth
      Cached(i, j) == {k \in 0 .. Least(3 - slot, limit - 1) :
                         Char(b, s.m, chain[i], slot + k) # Char(b, s.m, chain[j], slot + k)}
      Equal(i, j)  == IF Cached(i, j) = {} THEN Least(4 - slot, limit) ELSE Min(Cached(i, j))
      From(i, k)   == s.m[chain[i]].from + depth + k
      Match(i, j)  == LET k == Equal(i, j)
                      IN  IF k = 0 THEN 0 ELSE k + Common(b, From(i, k), From(j, k), limit - k)
      Lens(i) == [j \in i + 1 .. n |-> Match(i, j)]
      tried   == Tried(b, [i \in 1 .. n |-> s.m[chain[i]].from])
      Set(i, r) == IF Longest(Lens(i)) = 0 THEN r
                   ELSE [r EXCEPT !.m[chain[i]].next = chain[Longest(Lens(i))],
                                  !.m[chain[i]].len = depth + Lens(i)[Longest(Lens(i))]]
  IN  Reads(FoldSet(Set, s, tried), s.m[pos].from + maxDepth)

-----------------------------------------------------------------------------
(* RMF_recurseListChunk: a buffered list, depth first.                     *)

(* RMF_handleRepeat of radix_mf.c: the elements of a run at one distance   *)
(* get lengths that grow by the distance.                                  *)
RepeatLens(m, b, chain, skipped, depth) ==
  LET Dist(i)  == m[chain[i]].from - m[chain[i + 1]].from
      First(i) == Max({k \in 1 .. i : k \in skipped /\ k - 1 \notin skipped})
      Len0(i)  == LET d    == Dist(i)
                      from == m[chain[First(i)]].from
                      top  == Least(b.maxLen, b.end - from)
                      base == depth + d
                  IN  IF base >= top THEN base
                      ELSE base + Common(b, from + base, from - d + base, top - base)
      New(i)   == Least(Len0(i) + (i - First(i)) * Dist(i), b.maxLen)
  IN  [p \in {chain[i] : i \in skipped} |->
         [m[p] EXCEPT !.len = New(CHOOSE i \in skipped : chain[i] = p)]] @@ m

(* One pass over a chain at `depth` - 1.  Repeats are looked for at depths  *)
(* that are a power of two.                                                *)
Tests(depth, maxDepth) ==
  maxDepth # 6 /\ depth \in {4, 8, 16, 32, 64, 128} /\ maxDepth >= depth + depth \div 2

SkippedIn(m, chain, depth) ==
  LET Dist(i) == m[chain[i]].from - m[chain[i + 1]].from
  IN  {i \in 2 .. Len(chain) - 1 : Dist(i) <= depth /\ Dist(i) = Dist(i - 1)}

(* When the four cached characters are used up the next four are loaded,   *)
(* but not for an element that is alone.                                   *)
Loads(rest, key) ==
  LET n     == Len(rest)
      alone == \A k \in 1 .. n - 1 : key[k] # key[n]
  IN  {rest[k] : k \in 1 .. (IF alone THEN n - 1 ELSE n)}

Divide(s, b, chain, skipped, rest, key, loads, last, depth) ==
  LET moved == RepeatLens(Relinked(s.m, rest, key, depth), b, chain, skipped, depth - 1)
  IN  [s |-> Reads([s EXCEPT !.m = [p \in loads |-> [moved[p] EXCEPT !.at = depth]] @@ moved],
                   Max({0} \cup {s.m[p].from + depth + 3 : p \in loads})),
       chains |-> IF last THEN <<>> ELSE Divided(rest, key, Len(rest) - 1)]

PassOver(s, b, chain, skipped, rest, slot, depth, maxDepth) ==
  LET key   == [k \in DOMAIN rest |-> Char(b, s.m, rest[k], slot)]
      last  == ~Tests(depth - 1, maxDepth) /\ depth >= maxDepth
      loads == IF slot = 3 /\ maxDepth # 6 /\ ~last THEN Loads(rest, key) ELSE {}
  IN  Divide(s, b, chain, skipped, rest, key, loads, last, depth)

PassBut(s, b, chain, skipped, slot, depth, maxDepth) ==
  LET kept == Ascending(1 .. Len(chain) \ skipped, Len(chain))
  IN  PassOver(s, b, chain, skipped, [k \in DOMAIN kept |-> chain[kept[k]]], slot, depth, maxDepth)

Pass(s, b, chain, slot, depth, maxDepth) ==
  PassBut(s, b, chain, IF Tests(depth - 1, maxDepth) THEN SkippedIn(s.m, chain, depth - 1) ELSE {},
          slot, depth, maxDepth)

RECURSIVE Chunks(_, _, _, _, _, _)
Chunks(s, b, chains, base, stackBase, maxDepth) ==
  LET c      == Last(chains)
      below  == Front(chains)
      height == stackBase + Len(below)
      depth  == s.m[c.head].len
      slot   == (depth - base) % 4
      Go(p)  == Chunks(p.s, b, below \o p.chains, base, stackBase, maxDepth)
  IN  CASE chains = <<>> -> s
        [] chains # <<>> /\ (c.count < 2 \/ s.m[c.head].from < b.start \/ Overflows(height, Radix8, c.count)) ->
             Chunks(s, b, below, base, stackBase, maxDepth)
        [] chains # <<>> /\ c.count >= 2 /\ c.count <= MaxBrute ->
             Chunks(BruteForceBuffered(s, b, c.head, c.count, slot, depth, maxDepth),
                    b, below, base, stackBase, maxDepth)
        [] OTHER -> Go(Pass(s, b, Chain(s.m, c.head, c.count), slot, depth + 1, maxDepth))

RecurseListChunk(s, b, depth, maxDepth, n, stackBase) ==
  LET chain == [i \in 1 .. n |-> i - 1]
      key   == [i \in 1 .. n |-> Char(b, s.m, i - 1, 0)]
  IN  CASE n < 2 -> s
        [] n >= 2 /\ n <= MaxBrute -> BruteForceBuffered(s, b, 0, n, 0, depth, maxDepth)
        [] OTHER -> Chunks([s EXCEPT !.m = Relinked(@, chain, key, depth + 1)], b,
                           Divided(chain, key, n - 1), depth, stackBase, Most(maxDepth, 6))

-----------------------------------------------------------------------------
(* RMF_recurseListsBuffered: a list of the table is copied to the buffer,  *)
(* as much as fits, divided there, and copied back.                        *)

(* RMF_handleRepeat and RMF_handleRepeat2 of radix_engine.h: a run of one  *)
(* byte, or of two in turn, that goes on behind i is found back to its     *)
(* start, and linked at distance 1 or 2 from the element that is `last`.   *)
RunStart(b, i, dist) ==
  LET start == Max({k \in 1 .. i : At(b, k - 1) # At(b, k - 1 + dist)} \cup {0})
  IN  IF dist = 1 THEN start ELSE start + ((start + i) % 2)

LinkRun(s, b, first, last, dist, len) ==
  [s EXCEPT !.t = [p \in {q \in first + 1 .. last : (last - q) % dist = 0} |->
                     [link |-> p - dist, len |-> Least(len + last - p, b.maxLen)]] @@ @]

HandleRepeat(s, b, i, depth) ==
  LET last == i + MaxRepeat \div 2 - 1
  IN  IF last < b.start THEN s ELSE LinkRun(s, b, RunStart(b, i, 1), last, 1, depth)

HandleRepeat2(s, b, i, depth) ==
  LET last == i + 2 * MaxRepeat - 4
      len  == depth + (IF At(b, last + depth) = At(b, last) THEN 1 ELSE 0)
  IN  IF RunStart(b, i, 2) < b.start THEN s ELSE LinkRun(s, b, RunStart(b, i, 2), last, 2, len)

(* The loop that fills the buffer, in which f has, besides the state, the  *)
(* list's place, what is left of it, and the repeat that is under way.     *)
Far == 2 * NullLink                        \* (size_t)-1

Buffered(f, b, depth) ==
  [f EXCEPT !.s.m = (f.count :> [from |-> f.link, at |-> depth, next |-> f.count + 1, len |-> depth]) @@ @,
            !.s.reach = Most(@, f.link + depth + 3),
            !.count = @ + 1, !.prev = f.link, !.link = f.s.t[f.link].link]

FillTo(f, b) == Least(f.start + f.left, b.limit)

RECURSIVE Fill(_, _, _)
Fill(f, b, depth) ==
  LET dist  == IF f.link > f.prev THEN Far ELSE f.prev - f.link
      rpt   == f.rpt + 3 - dist
      first == RunStart(b, f.link, dist)
      s     == IF dist = 1 THEN HandleRepeat(f.s, b, f.link, depth)
               ELSE HandleRepeat2(f.s, b, f.link, depth)
      cut   == [f EXCEPT !.s = s, !.link = first, !.rpt = 0,
                         !.count = @ + 1 - (IF dist = 1 THEN MaxRepeat \div 2 ELSE MaxRepeat - 1),
                         !.left = @ - (f.tail - first) \div dist]
  IN  CASE f.count >= f.to -> f
        [] f.count < f.to /\ dist > 2 ->
             Fill([Buffered(f, b, depth) EXCEPT !.rpt = 0, !.tail = f.link], b, depth)
        [] f.count < f.to /\ dist <= 2 /\ rpt < MaxRepeat - 2 ->
             Fill([Buffered(f, b, depth) EXCEPT !.rpt = rpt], b, depth)
        [] OTHER -> Fill([cut EXCEPT !.to = FillTo(cut, b)], b, depth)

(* Back to the table, but not the last element, or those that begin the    *)
(* next part, and nothing from the overlap on.                             *)
CopyBack(s, b, n, maxLen) ==
  LET above == {p \in 0 .. n - 1 : \A q \in 0 .. p : s.m[q].from >= b.start}
      Set(p, r) == SetMatch(r, s.m[p].from, s.m[s.m[p].next].from, Least(s.m[p].len, maxLen))
  IN  FoldSet(Set, s, above)

Overlap(n) == Most(n \div 64, 1)            \* MATCH_BUFFER_OVERLAP

NextPart(s, n, overlap, depth) ==
  [s EXCEPT !.m = [p \in 0 .. overlap - 1 |->
                     [from |-> s.m[n - overlap + p].from, at |-> depth, next |-> p + 1, len |-> depth]],
            !.reach = Max({@} \cup {s.m[n - overlap + p].from + depth + 3 : p \in 0 .. overlap - 1})]

RECURSIVE Parts(_, _, _, _, _)

AfterPart(e, done, overlap, b, depth, maxDepth, stackBase) ==
  LET kept == e.to - Most(overlap, 1)
      left == e.left - (e.to - e.start)
      back == CopyBack(done, b, kept, b.maxLen)
  IN  IF left = 0 \/ \E p \in 0 .. kept - 1 : done.m[p].from < b.start THEN back
      ELSE Parts([e EXCEPT !.s = IF overlap = 0 THEN back ELSE NextPart(back, e.to, overlap, depth),
                           !.left = left, !.start = overlap, !.count = overlap,
                           !.prev = Far + NullLink, !.rpt = 0, !.tail = e.link],
                 b, depth, maxDepth, stackBase)

OnePart(e, b, depth, maxDepth, stackBase) ==
  AfterPart(e, RecurseListChunk([e.s EXCEPT !.m[e.to - 1].next = e.to - 1, !.m[e.to - 1].len = depth],
                                b, depth, maxDepth, e.to, stackBase),
            IF e.to < e.start + e.left THEN Overlap(e.to) ELSE 0, b, depth, maxDepth, stackBase)

Parts(f, b, depth, maxDepth, stackBase) ==
  OnePart(Fill([f EXCEPT !.to = FillTo(f, b)], b, depth), b, depth, maxDepth, stackBase)

RecurseListsBuffered(s, b, link, depth, maxDepth, n, stackBase) ==
  IF n < 2 \/ b.limit < 2 THEN s
  ELSE Parts([s |-> s, link |-> link, left |-> n, start |-> 0, count |-> 0, to |-> 0,
              prev |-> Far + NullLink, rpt |-> 0, tail |-> link], b, depth, maxDepth, stackBase)

-----------------------------------------------------------------------------
(* RMF_recurseListsBound: the positions of a list that are so near the end *)
(* that reading ahead would pass it, and a few before them to match with.  *)
(* Each comparison looks where the text ends.                              *)
(* Mutant of BoundedSize: the depth, and no more.                          *)
BoundedSizeShort(maxDepth) == maxDepth

BoundedSize(maxDepth) == maxDepth + 2      \* MAX_READ_BEYOND_DEPTH
BoundedStart(b)       == b.end - Least(b.end, BoundedSize(MaxDepth(b)))

Within(b, depth, pos) == pos < b.end - depth

BoundPass(b, m, chain, depth) ==
  LET in  == SelectSeq(chain, LAMBDA p : Within(b, depth - 1, m[p].from))
      key == [k \in DOMAIN in |-> At(b, m[in[k]].from + depth - 1)]
  IN  [m |-> Relinked(m, in, key, depth), chains |-> Divided(in, key, Len(in))]

RECURSIVE BoundChunks(_, _, _)
BoundChunks(b, m, chains) ==
  LET c     == Last(chains)
      depth == m[c.head].len
      pass  == BoundPass(b, m, Chain(m, c.head, c.count), depth + 1)
  IN  CASE chains = <<>> -> m
        [] chains # <<>> /\ (c.count < 2 \/ depth >= MaxDepth(b) \/ m[c.head].from < BoundedStart(b)) ->
             BoundChunks(b, m, Front(chains))
        [] OTHER -> BoundChunks(b, pass.m, Front(chains) \o pass.chains)

(* How many elements are taken: those in the bounded region, and no more   *)
(* than extra_count before it.                                             *)
BoundCount(b, froms) ==
  LET extra == MaxDepth(b) \div 16 + 4
      below == {i \in DOMAIN froms : froms[i] < BoundedStart(b)}
      most  == Least(Least(BoundedSize(MaxDepth(b)), Len(froms)), b.size)
  IN  Max({i \in 0 .. most : Cardinality(below \cap 1 .. i) <= extra})

(* What it does to the table, and what is left of the list.                *)
RecurseListsBound(s, b, l) ==
  LET froms  == LinkedPositions(s.t, l.head, l.count)
      n      == BoundCount(b, froms)
      near   == {i \in 1 .. n : froms[i] >= BoundedStart(b)}
      after  == s.t[froms[Max(near)]].link
      m0     == [p \in 0 .. n - 1 |-> [from |-> froms[p + 1], at |-> 0, next |-> p + 1, len |-> 2]]
      first  == BoundPass(b, m0, [i \in 1 .. n |-> i - 1], 3)
      m      == BoundChunks(b, first.m, first.chains)
      Set(p, r) == SetMatch(r, m[p].from, m[m[p].next].from,
                            Least(Least(m[p].len, b.end - m[p].from), b.maxLen))
  IN  IF l.count < 2 THEN [s |-> s, list |-> l]
      ELSE [s    |-> FoldSet(Set, s, {p \in 0 .. n - 2 : p + 1 \in near}),
            list |-> [head  |-> IF after < BoundedStart(b) THEN after ELSE l.head,
                      count |-> l.count - Cardinality(near)]]

-----------------------------------------------------------------------------
(* RMF_recurseLists16: a list that is not buffered is divided by two bytes *)
(* at once; what only one has in common gets length 3.                     *)
RecurseLists16(s, b, link, n, maxDepth) ==
  LET chain == LinkedPositions(s.t, link, n)
      One(i) == At(b, chain[i] + 2)
      Two    == [i \in 1 .. n |-> Pair(b, chain[i] + 2)]
      Next1(i) == {j \in i + 1 .. n : One(j) = One(i)}
      Next2(i) == {j \in i + 1 .. n : Two[j] = Two[i]}
      Entry(i) ==
        CASE Next2(i) # {} -> [link |-> chain[Min(Next2(i))], len |-> 4]
          [] Next2(i) = {} /\ Next1(i) # {} -> [link |-> chain[Min(Next1(i))], len |-> 3]
          [] OTHER -> IF i = n THEN s.t[chain[n]] ELSE [link |-> chain[i + 1], len |-> 2]
      where  == [p \in {chain[i] : i \in 1 .. n} |-> CHOOSE i \in 1 .. n : chain[i] = p]
      linked == Reads([s EXCEPT !.t = [p \in DOMAIN where |-> Entry(where[p])] @@ @], link + 3)
      lists  == Divided(chain, Two, n - 1)
      Skip(r, k) == \/ lists[k].count < 2 \/ lists[k].head < b.start
                    \/ Overflows(k - 1, Radix16, lists[k].count)
      Work(r, k) ==
        LET depth == r.t[lists[k].head].len
        IN  CASE Skip(r, k) -> r
              [] ~Skip(r, k) /\ lists[k].count <= MaxBrute ->
                   BruteForce(r, b, lists[k].head, lists[k].count, depth, Least(maxDepth, b.maxLen))
              [] OTHER -> RecurseListsBuffered(r, b, lists[k].head, depth, maxDepth, lists[k].count, k - 1)
  IN  FoldLeft(Work, linked, [i \in 1 .. Len(lists) |-> Len(lists) + 1 - i])

(* One list in RMF_bitpackBuildTable, after it was taken: near the end with*)
(* bounds; what is left unbuffered if it is long and that is worth while.  *)
Worked(t, b, l) ==
  LET s     == [t |-> t, m |-> <<>>, reach |-> 0]
      bound == IF l.head >= BoundedStart(b) THEN RecurseListsBound(s, b, l) ELSE [s |-> s, list |-> l]
      rest  == bound.list
  IN  CASE rest.count < 2 \/ rest.head < b.start -> bound.s
        [] rest.count >= 2 /\ rest.head >= b.start /\ b.best /\ rest.count > b.limit ->
             RecurseLists16(bound.s, b, rest.head, rest.count, MaxDepth(b))
        [] OTHER -> RecurseListsBuffered(bound.s, b, rest.head, 2, MaxDepth(b), rest.count, 0)

-----------------------------------------------------------------------------
(* The encoder's side.                                                     *)

(* Mutant of LimitLengths: lengths are left as they are.                   *)
LimitLengthsNot(t, b, pos) == [t EXCEPT ![pos - 1] = Null]

(* RMF_limitLengths: no match goes beyond pos.                             *)
LimitLengths(t, b, pos) ==
  [i \in DOMAIN t |->
     CASE i = pos - 1 -> Null
       [] i < pos - 1 /\ i > pos - b.maxLen /\ t[i].link # NullLink -> [t[i] EXCEPT !.len = Least(@, pos - i)]
       [] OTHER -> t[i]]

(* RMF_bitpackExtendMatch: a match of full length goes on as long as the   *)
(* entries beyond have the same distance, and then as the bytes are equal. *)
(* An entry of length 0 there is never passed.                             *)
Endless == -1

RECURSIVE Extended(_, _, _, _)
Extended(t, dist, end, limit) ==
  IF end < limit /\ t[end].link # NullLink /\ end - t[end].link = dist
  THEN IF t[end].len = 0 THEN Endless ELSE Extended(t, dist, end + t[end].len, limit)
  ELSE end

(* RMF_getMatch for a slice that ends at `end`.                            *)
GetMatch(t, b, end, pos) ==
  LET e     == t[pos]
      dist  == pos - e.link
      limit == Least(end, pos + MatchLenMax)
      far   == Extended(t, dist, pos + e.len, limit)
      len   == IF far >= limit THEN limit - pos
               ELSE far - pos + Common(b, far - dist, far, limit - far)
  IN  CASE e.link = NullLink -> [length |-> 0, dist |-> 0]
        [] e.link # NullLink /\ e.len \notin {b.depth, b.maxLen} -> [length |-> e.len, dist |-> dist - 1]
        [] OTHER -> [length |-> IF far = Endless THEN Endless ELSE len, dist |-> dist - 1]
=============================================================================
