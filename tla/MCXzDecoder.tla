---------------------------- MODULE MCXzDecoder ----------------------------
EXTENDS XzDecoder

Block(sizes, chunks) == [sizes |-> sizes, chunks |-> chunks, wrong |-> "no"]
Stream(check, blocks) == [check |-> check, blocks |-> blocks, padding |-> 0, wrong |-> "no"]
First(n) == [reset |-> TRUE, size |-> n]
Then(n)  == [reset |-> FALSE, size |-> n]

Known   == Block({"c", "u"}, <<First(5), Then(2)>>)
Known2  == Block({"c", "u"}, <<First(3)>>)
Unknown == Block({}, <<First(4), First(1)>>)
Large   == Block({"u"}, <<First(9)>>)
Empty   == Block({"c"}, <<>>)

(* Right: blocks of every form, no blocks, several streams, padding.       *)
Right ==
  {<<Stream(Crc32Type, <<Known, Known2>>)>>,
   <<Stream(Crc64Type, <<Known2, Unknown>>)>>,
   <<[Stream(CheckNone, <<Large>>) EXCEPT !.padding = 4], Stream(Crc32Type, <<>>)>>,
   <<Stream(Crc32Type, <<Empty, Unknown>>)>>}

Wrong ==
  {<<[Stream(Crc32Type, <<Known, Known2>>) EXCEPT !.wrong = w]>> :
     w \in {"count", "swapped", "size", "unpadded", "vli", "backward", "flags"}}
    \cup {<<[Stream(Crc32Type, <<Known2>>) EXCEPT !.padding = n]>> : n \in 1 .. 3}
    \cup {<<Stream(CheckNone, <<Known2, [Known EXCEPT !.wrong = w]>>)>> : w \in {"cSize", "uSize"}}
    \cup {<<Stream(CheckNone, <<[Large EXCEPT !.wrong = "uSize"]>>)>>}

MCFiles == Right \cup Wrong
=============================================================================
