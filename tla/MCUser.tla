------------------------------- MODULE MCUser -------------------------------
(* Scripts for the shell and its programs. *)
EXTENDS User

MCContents == ("f" :> <<"a", "nl", "b", "nl">>) @@ ("g" :> <<"c">>)

MCScripts == {
    << >>,
    <<<<"echo", "a", "|", "cat">>, EndInput, <<"cat", "f", "g">>>>,
    <<<<"echo", "a", ";", "cat", "zz">>, <<"cd", "d">>, <<"|", "|">>, << >> >>,
    <<<<"(", "echo", "a", ";", "cat", ")", "<", "f", "|", "cat", ">", "h">>,
      <<"cat", "h">>>>,
    <<<<"cat", "f", "|", "echo", "a", "+", "f">>, <<"nope", "<", "zz">> >>,
    <<<<"echo", "a", "&">>, <<"nope">>, <<"cat", "g">> >>,
    <<<<"echo", "a", "|", "cat", "|", "cat", "|", "cat", "|", "cat">>>>,
    <<<<"cat", "<", "f", "|", "xargs", "echo", "x">>>>,
    <<<<"cat", "g", "|", "xargs", "nope">>, <<"xargs">>>>,
    <<<<"primes">>>>,
    <<<<"pingpong", "|", "cat">>>> }

MCTokens == {"w", "|", "&", ";", "<", "+", "(", ")"}
=============================================================================
