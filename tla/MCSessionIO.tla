---------------------------- MODULE MCSessionIO ----------------------------
(* Instances of SessionIO for TLC. *)
EXTENDS SessionIO

CONSTANTS full, small, small2, short, long, brief, single, view

MCContent == [p \in Requests |-> CASE p = full  -> <<3, 0, 1>>
                                   [] p = short -> <<1, 0>>
                                   [] OTHER     -> <<2, 0>>]

MCScripts == {<<<<full, small>>>>,
              <<<<small, small2>>, <<small>>>>,
              <<<<small>>, <<short>>>>,
              <<<<>>, <<small>>, <<small>>>>}

MCAnswerTo == [p \in Requests |-> CASE p = full  -> long
                                    [] p = small -> brief
                                    [] OTHER     -> single]

MCSize == [a \in Packets |-> IF a = long THEN 2 ELSE 1]
=============================================================================
