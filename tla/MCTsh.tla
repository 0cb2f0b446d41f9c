------------------------------- MODULE MCTsh -------------------------------
(* The shell with a few command lines: programs in the foreground and in the *)
(* background, the builtin commands with job IDs, process IDs, words that    *)
(* are neither and none, quotes, and lines without a command.                *)
EXTENDS Tsh

Jobs == {<<"%", "1">>, <<"%", "2">>, <<"1">>, <<"2">>}

Continue == {<<name, " ">> \o arg : name \in {"fg", "bg"}, arg \in Jobs}

MCCommandLines ==
    Continue
        \cup {<<"run">>, <<"'", "run", " ", "'", " ", "x", " ", "&">>,
              <<"fg">>, <<"bg", " ", "x">>, <<"fg", " ", "%", " ", "'">>,
              <<"jobs">>, <<" ", "quit", "&">>, <<"quit">>, <<" ">>, <<"&">>}

MCLiveLines == Continue \cup {<<"run">>, <<"run", " ", "&">>}

MCGhostLines == {<<"run", " ", "&">>, <<"fg", " ", "1">>, <<"fg", " ", "2">>}
=============================================================================
