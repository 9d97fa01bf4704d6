--------------------------- MODULE SliceAssigner ---------------------------
(***************************************************************************)
(* Slices and windows of event time (SliceAssigner.hpp).  An assigner a is *)
(* a record of the window's size and slide.  A slice is named by its end,  *)
(* and so is a window, as both maps of the slice store do; a window with   *)
(* the end e is the interval [e - size, e).                                *)
(***************************************************************************)
EXTENDS Integers, FiniteSetsExt

(* The intended windows: those that start at a multiple of the slide. *)
WindowStart(a, e) == e - a.size
IsWindow(a, e) == e >= a.size /\ WindowStart(a, e) % a.slide = 0
InWindow(a, e, ts) == IsWindow(a, e) /\ WindowStart(a, e) <= ts /\ ts < e

getSliceStartTs(a, ts) ==
    LET prevSlideStart == ts - (ts % a.slide)
        prevWindowStart == IF ts < a.size THEN prevSlideStart ELSE ts - ((ts - a.size) % a.slide)
    IN  Max({prevSlideStart, prevWindowStart})

getSliceEndTs(a, ts) ==
    LET nextSlideEnd == ts + a.slide - (ts % a.slide)
        nextWindowEnd == IF ts < a.size THEN a.size ELSE ts + a.slide - ((ts - a.size) % a.slide)
    IN  Min({nextSlideEnd, nextWindowEnd})

(* A slice end that is no window end lies on the start of a window that the slice is not part of. *)
getAllWindowsForSlice(a, start, end) ==
    LET atLeastSize == Max({end, a.size})
        isWindowEnd == (atLeastSize - a.size) % a.slide = 0
        firstWindowEnd == IF isWindowEnd THEN atLeastSize ELSE start + a.slide
        lastWindowEnd == IF isWindowEnd THEN start + a.size ELSE atLeastSize + a.size - a.slide
    IN  {e \in firstWindowEnd..lastWindowEnd : (e - firstWindowEnd) % a.slide = 0}
=============================================================================
