--------------------------- MODULE MCPostbackSpool ---------------------------
(* Small instances of PostbackSpool for TLC. *)
EXTENDS PostbackSpool, TLC

CONSTANTS r1, r2, r3, f1, f2

TwoResults == {r1, r2}
ThreeResults == {r1, r2, r3}
OneFlush == {f1}
TwoFlushes == {f1, f2}

(* Taken, refused, not available. *)
UsualAnswers == {[status |-> 200, body |-> "empty"], [status |-> 404, body |-> "error"],
                 [status |-> 503, body |-> "text"]}
TwoAnswers == {[status |-> 200, body |-> "empty"], [status |-> 503, body |-> "text"]}
AllAnswers == [status : {200, 202, 400, 404, 503},
               body : {"empty", "text", "error", "fulfilled"}]

(* Results and flushes are interchangeable; sound for safety only. *)
Symmetry == Permutations(Results) \cup Permutations(Flushes)
=============================================================================
