---------------------------- MODULE TimeIntervals ----------------------------
(* Half-open reservation intervals [start, end), in hours: TimeInterval.    *)
EXTENDS Integers

Interval == {i \in [start : Int, end : Int] : i.start < i.end}

Duration(i) == i.end - i.start

Overlaps(a, b) == a.start < b.end /\ a.end > b.start

Covers(i, t) == i.start <= t /\ t < i.end

=============================================================================
