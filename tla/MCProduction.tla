---------------------------- MODULE MCProduction ----------------------------
(* A small instance of Production for TLC: one shot with a dialogue, two      *)
(* posters of different bodies under one key, a user and the recovery loop.   *)
EXTENDS Production, TLC

CONSTANTS s1, c1, c2, user

Film == [mode |-> "image", music |-> TRUE, speech |-> TRUE, effects |-> FALSE,
         visualOf |-> {s1}, audioOf |-> {}]
Loud == [Film EXCEPT !.effects = TRUE, !.audioOf = {s1}]
Short == [Film EXCEPT !.speech = FALSE]
MCRequests == {Film, Loud, Short}
ShortOnly == c1 :> Short
FilmOnly == c1 :> Film
MCLost == {Compose}
MCFragile == {Assemble}
FragileFilm == {Compose}
MCRequestOf == (c1 :> Film) @@ (c2 :> Loud)
\* The profiles of route 1 no longer offer the effects.
MCFits == {<<Film, 0>>, <<Film, 1>>, <<Loud, 0>>, <<Short, 0>>}
=============================================================================
