------------------------------ MODULE MCRootfs ------------------------------
(***************************************************************************)
(* Archives of up to five entries.  The name a is a prefix of ab, xyz is   *)
(* as long as file_name, the last name starts over in it three times, and  *)
(* two numbers are shared by several files.                                *)
(***************************************************************************)
EXTENDS Rootfs

Node(mode, number, size, dir, base) ==
    LET e == [mode |-> mode, number |-> number, size |-> size, dir |-> dir, base |-> base]
        Lower(n) == IF n > 9 THEN n + 16 ELSE n
    IN  e @@ [namesize |-> <<0, Lower(NameSize(e))>>]

Dir(dir, base) == Node("DIRECTORY", 9, <<0, 0>>, dir, base)
File(number, size, dir, base) == Node("REGULAR", number, size, dir, base)

a == <<1>>
ab == <<1, 2>>
b == <<2>>
c == <<3>>
d == <<4>>
xyz == <<5, 6, 7>>
long == <<8, 8, 8, 8, 8, 8, 8, 8, 8, 8>>

\* Sizes 5, 18 and 0; one in lower case; one of a name in lower case; a file
\* that stands where a directory of its name may be sought; a link to number 1;
\* a mode that is not known.
MCEntries ==
    {Dir(<<>>, a), Dir(<<>>, ab), Dir(a, b),
     File(1, <<0, 5>>, a, c), File(2, <<1, 2>>, a, d), File(3, <<0, 5>>, <<>>, a),
     File(1, <<0, 0>>, b, a), File(2, <<0, 26>>, ab, xyz),
     File(3, <<0, 5>>, <<>>, long),
     [File(4, <<0, 0>>, <<>>, c) EXCEPT !.mode = "INVALID"]}

MCQueries == {a, ab, c, d}
=============================================================================
