-------------------------------- MODULE MCFs --------------------------------
(***************************************************************************)
(* A disk of a few two-unit sectors: a file, a directory, and a path below *)
(* it.                                                                     *)
(***************************************************************************)
EXTENDS Fs

MCParent == [n \in Name |-> IF n = "d/x" THEN "d" ELSE IF n = "d/x/y" THEN "d/x" ELSE NoName]

MCFile(n, data) == [name |-> n, data |-> data]
MCSeeds == {Seeded(<<MCFile("f", <<"a">>)>>)}

(* Less than a sector, more than one. *)
MCPayloads == {<<"a">>, <<"b", "b", "b">>}

MCFlags == {{}, {"creat"}, {"write"}, {"write", "append"}, {"write", "creat", "trunc"}}

=============================================================================
