------------------------------ MODULE TCSizeMap ------------------------------
(* The size classes of the allocator: the four tables a build can have and *)
(* the array size_to_class_ that Initialize computes from one of them, by  *)
(* which Allocate and Deallocate find the class of a size.  TCMalloc.tla   *)
(* takes the class to be the smallest that holds the size.                 *)
EXTENDS Integers, Sequences

kMaxSize      == 256 * 1024
kMaxSmallSize == 1024
kClassArraySize == (kMaxSize + 127 + 120 * 128) \div 128 + 1

(* One page for each of the first n classes.                               *)
Ones(n) == [i \in 1..n |-> 1]

(* kSizeClassInfoArray, for objects aligned to 2^shift bytes.              *)
Eight32K ==
  [size |-> << 8, 16, 32, 64, 72, 80, 88, 96, 104, 112, 120, 128, 144,
    160, 176, 192, 208, 232, 256, 272, 296, 320, 352, 400, 448, 480,
    512, 576, 640, 704, 832, 896, 1024, 1152, 1280, 1408, 1536, 1920,
    2048, 2176, 2432, 2688, 3200, 3584, 4096, 4608, 5376, 6528, 7168,
    8192, 9344, 10880, 13056, 13952, 16384, 19072, 21760, 24576, 28672,
    32768, 38144, 40960, 49152, 57344, 65536, 81920, 98304, 114688,
    131072, 163840, 196608, 229376, 262144 >>,
   pages |-> Ones(48) \o << 2, 1, 2, 1, 2, 3, 1, 3, 2, 3, 7, 1, 5, 4, 3,
    7, 2, 5, 3, 7, 4, 5, 6, 7, 8 >>,
   shift |-> 3, page |-> 2^15]

Eight256K ==
  [size |-> << 8, 16, 32, 64, 72, 80, 88, 96, 104, 112, 128, 144, 160,
    176, 192, 208, 232, 256, 272, 304, 352, 400, 472, 512, 576, 640,
    704, 768, 896, 1024, 1152, 1280, 1408, 1536, 1664, 1920, 2048, 2304,
    2560, 2816, 3072, 3328, 3584, 3840, 4096, 4352, 4736, 5632, 6528,
    7168, 8192, 8704, 9344, 9984, 10880, 11904, 13056, 13696, 14464,
    15360, 16384, 17408, 18688, 20096, 21760, 23808, 26112, 29056,
    32768, 37376, 43648, 52352, 56064, 65536, 74880, 87296, 104832,
    112256, 131072, 149760, 174720, 196608, 209664, 262144 >>,
   pages |-> Ones(72) \o << 2, 1, 2, 1, 2, 3, 1, 3, 2, 3, 4, 1 >>,
   shift |-> 3, page |-> 2^18]

Sixteen32K ==
  [size |-> << 8, 16, 32, 48, 64, 80, 96, 112, 128, 144, 160, 176, 192,
    208, 224, 240, 256, 288, 304, 320, 336, 352, 368, 384, 400, 432,
    448, 480, 512, 576, 640, 704, 832, 896, 1024, 1152, 1280, 1408,
    1536, 1920, 2048, 2176, 2432, 2688, 3200, 3584, 4096, 4608, 5376,
    6528, 7168, 8192, 9344, 10880, 13056, 13952, 15104, 16384, 19072,
    21760, 24576, 26240, 28672, 32768, 38144, 40960, 49152, 57344,
    65536, 81920, 98304, 114688, 131072, 163840, 196608, 229376, 262144 >>,
   pages |-> Ones(50) \o << 2, 1, 2, 1, 2, 3, 1, 1, 3, 2, 3, 4, 7, 1, 5,
    4, 3, 7, 2, 5, 3, 7, 4, 5, 6, 7, 8 >>,
   shift |-> 4, page |-> 2^15]

Sixteen256K ==
  [size |-> << 8, 16, 32, 48, 64, 80, 96, 112, 128, 144, 160, 176, 192,
    208, 224, 240, 256, 272, 288, 304, 336, 352, 400, 432, 472, 512,
    576, 640, 704, 768, 896, 1024, 1152, 1280, 1408, 1536, 1664, 1920,
    2048, 2304, 2560, 2816, 3072, 3328, 3584, 3840, 4096, 4352, 4736,
    5632, 6528, 7168, 8192, 8704, 9344, 9984, 10880, 11904, 12288,
    13056, 13696, 14464, 15360, 16384, 17408, 18688, 20096, 21760,
    23808, 24567, 26112, 29056, 32768, 37376, 43648, 52352, 56064,
    65536, 74880, 87296, 104832, 112256, 131072, 149760, 174720, 196608,
    209664, 262144 >>,
   pages |-> Ones(76) \o << 2, 1, 2, 1, 2, 3, 1, 3, 2, 3, 4, 1 >>,
   shift |-> 4, page |-> 2^18]
-----------------------------------------------------------------------------
AlignmentForSize(table, size) ==
  CASE size <= 8 -> 8
    [] size > 8 /\ size <= kMaxSmallSize -> 2^table.shift
    [] size > kMaxSmallSize -> 128

IndexOfSizeToClass(table, size) ==
  CASE size <= 8 -> 0
    [] size > 8 /\ size <= kMaxSmallSize -> (size + 2^table.shift - 1) \div 2^table.shift
    [] size > kMaxSmallSize -> (size + 127 + 120 * 128) \div 128

\* mutant: the next class starts right behind this one
InitializeTight(table) ==
  LET size[i \in 0..Len(table.size)] == IF i = 0 THEN 1 ELSE table.size[i] + 1
      index(i) ==
        LET align == AlignmentForSize(table, size[i - 1])
        IN  {IndexOfSizeToClass(table, size[i - 1] + n * align) :
               n \in 0..((table.size[i] - size[i - 1]) \div align)}
      class[i \in 0..Len(table.size)] ==
        IF i = 0 THEN [x \in 0..(kClassArraySize - 1) |-> 1]
        ELSE LET set == index(i) before == class[i - 1]
             IN  [x \in 0..(kClassArraySize - 1) |-> IF x \in set THEN i ELSE before[x]]
  IN  class[Len(table.size)]

(* A round per class: from where the last one ended, in steps of the       *)
(* alignment there, every size up to that of the class.  What no round     *)
(* sets stays with the first class.                                        *)
Initialize(table) ==
  LET size[i \in 0..Len(table.size)] ==
        IF i = 0 THEN 1 ELSE table.size[i] + AlignmentForSize(table, size[i - 1])
      index(i) ==
        LET align == AlignmentForSize(table, size[i - 1])
        IN  {IndexOfSizeToClass(table, size[i - 1] + n * align) :
               n \in 0..((table.size[i] - size[i - 1]) \div align)}
      class[i \in 0..Len(table.size)] ==
        IF i = 0 THEN [x \in 0..(kClassArraySize - 1) |-> 1]
        ELSE LET set == index(i) before == class[i - 1]
             IN  [x \in 0..(kClassArraySize - 1) |-> IF x \in set THEN i ELSE before[x]]
  IN  class[Len(table.size)]
-----------------------------------------------------------------------------
Tables == {Eight32K, Eight256K, Sixteen32K, Sixteen256K}

(* The sizes whose entry no round sets in the table for 256K pages and 16  *)
(* bytes: its classes 472 and 24567 are no multiples of the step.          *)
Forgotten(table) ==
  IF table = Sixteen256K THEN 465..480 \cup 24449..24576 ELSE {}

(* Each size a thread cache is asked for has the smallest class that holds *)
(* it, with the exact exception of the sizes above, which get the class of *)
(* 8 bytes.  The classes grow up to kMaxSize, and the span of a class has  *)
(* room for an object.  In the build with 32K pages every object has the   *)
(* alignment the size was rounded up to.                                   *)
SizesHaveTheirClass ==
  \A table \in Tables :
    LET class == Initialize(table)
        size  == table.size
        of(s) == class[IndexOfSizeToClass(table, s)]
    IN  /\ \A s \in 1..kMaxSize :
             LET b == of(s) IN
             IF s \in Forgotten(table) THEN b = 1
             ELSE size[b] >= s /\ (b > 1 => size[b - 1] < s)
        /\ size[Len(size)] = kMaxSize /\ Len(table.pages) = Len(size)
        /\ \A b \in 1..Len(size) : table.pages[b] * table.page >= size[b]
        /\ table \in {Eight32K, Sixteen32K} =>
             \A s \in 1..(kMaxSize \div 2^table.shift) :
               size[of(s * 2^table.shift)] % 2^table.shift = 0
=============================================================================
