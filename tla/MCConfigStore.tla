--------------------------- MODULE MCConfigStore ---------------------------
(* One fault at a time.  Bodies at the limits: one past a range, one that  *)
(* would fit if it were narrowed, an unrounded step and one that rounds to *)
(* nothing, the old pair of lengths, an older and a newer schema.          *)
EXTENDS ConfigStore

Number(f, n) == [Empty EXCEPT !.num[f] = {n}]
Steps(s) == [enabled |-> {}, repeat |-> {2}, steps |-> {s}, on_ms |-> {}, off_ms |-> {}]
Repeat(n) == [Steps(<<>>) EXCEPT !.repeat = {n}, !.steps = {}]
Pair(on, off) == [enabled |-> {FALSE}, repeat |-> {}, steps |-> {}, on_ms |-> on, off_ms |-> off]
WithPattern(p) == [Empty EXCEPT !.pattern = {p}]

Kyiv == [uid |-> {31}, type |-> "city", oblast |-> {}, raion |-> {}]
TooWide == [Kyiv EXCEPT !.uid = {U16 + 31}]
Orphan == [uid |-> {7}, type |-> "raion", oblast |-> {}, raion |-> {}]
Child == [Orphan EXCEPT !.oblast = {14}]

MCBodies ==
  {Number("poll_sec", 1), Number("poll_sec", 601), Number("poll_sec", Wrong),
   Number("start_conf", 258),
   [Empty EXCEPT !.num.poll_sec = {15}, !.schema = {1}], [Empty EXCEPT !.schema = {3}],
   [Empty EXCEPT !.name = {31}, !.flag["single"] = {TRUE}, !.interval = {30},
                 !.num.quiet = {0}],
   [Empty EXCEPT !.name = {32}], [Empty EXCEPT !.interval = {29}],
   WithPattern(Steps(<<13000, -3004, 6>>)), WithPattern(Steps(<<4>>)),
   WithPattern(Steps([i \in 1..13 |-> 10])),
   WithPattern(Pair({}, {4})), WithPattern(Pair({60001}, {0})), WithPattern(Repeat(258)),
   [Empty EXCEPT !.locs = {<<>>}]}
MCLists == {<<>>, <<Kyiv, Child>>, <<Kyiv, Kyiv>>, <<TooWide>>, <<Orphan>>}
MCOldFiles ==
  {[Empty EXCEPT !.schema = {1}, !.num.poll_sec = {15}, !.num.stale_sec = {60},
                 !.pattern = {Pair({5000}, {})}],
   [Empty EXCEPT !.schema = {3}, !.num.poll_sec = {15}]}
=============================================================================
