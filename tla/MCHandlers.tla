----------------------------- MODULE MCHandlers ------------------------------
(***************************************************************************)
(* Bytes below 8: sizes up to 3 are short, a size of 4 takes four bytes.   *)
(* Handlers.tla for lists in which a name comes twice, a value is of the   *)
(* long form, a pair is over the limit.                                    *)
(***************************************************************************)
EXTENDS HandlersInv

P(n, v) == [name |-> n, value |-> v]

MCParamLists ==
    {<<P(<<1>>, <<>>), P(<<1>>, <<2, 3>>)>>,
     <<P(<<2>>, <<1>>), P(<<3, 3, 3>>, <<1, 1, 1>>)>>,
     <<P(<<2>>, <<1, 1, 1, 1>>), P(<<1>>, <<>>)>>}

MCAnswer == <<1>> :> <<7, 7, 7, 7>> @@ <<2>> :> <<6>>

MCQueries ==
    {<<P(<<1>>, <<>>), P(<<3>>, <<>>)>>, <<P(<<2>>, <<5>>)>>}
=============================================================================
