------------------------------ MODULE MCBoard ------------------------------
(***************************************************************************)
(* A small board: icons of which one begins above the screen, one below    *)
(* it and one beside it, and a master's requests for registers inside, at  *)
(* the edge of and beyond a file of three.                                 *)
(***************************************************************************)
EXTENDS Board

MCImageAt == <<0, 8, 16>>
MCIconAt == <<24, 32, 40>>
MCIconX == <<-1, 3, 1>>
MCIconW == <<3, 3, 2>>
MCIconH == <<2, 3, 2>>
MCIconY == <<0, 1, 2>>

Frame(function, at, n, words) ==
    [function |-> function, fits |-> TRUE, broadcast |-> FALSE,
     address |-> at, count |-> n, byteCount |-> (2 * n) % BYTE,
     readAddress |-> 0, readCount |-> 2, words |-> words]

MCReads ==
    {Frame(3, p[1], p[2], <<0, 0>>) :
        p \in {<<0, 2>>, <<2, 2>>, <<8, 1>>, <<0, 3>>, <<1, 4>>}}
MCWrites ==
    {Frame(6, at, 0, <<4, 0>>) : at \in {1, 3}}
        \cup {Frame(16, p[1], p[2], <<5, 1>>) :
                p \in {<<0, 2>>, <<1, 2>>, <<2, 2>>, <<0, 0>>}}
MCReadWrites ==
    {[Frame(23, p[1], 1, <<2, 0>>) EXCEPT !.readAddress = p[2]] :
        p \in {<<0, 0>>, <<2, 2>>, <<3, 0>>}}
MCBadFrames ==
    {[Frame(f, 0, 1, <<0, 0>>) EXCEPT !.fits = FALSE] : f \in {16, 23}}
        \cup {Frame(0, 0, 1, <<0, 0>>),
              [Frame(16, 0, 2, <<5, 1>>) EXCEPT !.byteCount = 0],
              [Frame(6, 1, 1, <<1, 0>>) EXCEPT !.broadcast = TRUE]}
MCRequests == MCReads \cup MCWrites \cup MCReadWrites \cup MCBadFrames
=============================================================================
