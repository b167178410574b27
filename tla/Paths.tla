------------------------------- MODULE Paths -------------------------------
(***************************************************************************)
(* The string operations on paths that unistorage is built on.  A path is  *)
(* a sequence of pieces; names are cut where one name begins another, and  *)
(* Slash is a piece: if "temp" and "-old" are pieces, temp-old/x is        *)
(* <<"temp", "-old", Slash, "x">>, which begins with the string temp but   *)
(* is not in the directory temp.  No path has two slashes in a row         *)
(* (IsPath).                                                               *)
(***************************************************************************)
EXTENDS Integers, SequencesExt

CONSTANT Slash

Piece == STRING
IsPath(path) ==
    path \in Seq(Piece) /\ \A i \in 2..Len(path) : ~(path[i - 1] = Slash /\ path[i] = Slash)

\* strings.HasPrefix, strings.TrimPrefix.
HasPrefix(path, prefix)  == IsPrefix(prefix, path)
TrimPrefix(path, prefix) ==
    IF HasPrefix(path, prefix) THEN SubSeq(path, Len(prefix) + 1, Len(path)) ELSE path

BeginsWithSlash(path) == HasPrefix(path, <<Slash>>)
EndsInSlash(path) == path # << >> /\ Last(path) = Slash

\* What filepath.Clean("/" + path) and strings.Trim(path, "/") leave.
Clean(path) ==
    LET relative == TrimPrefix(path, <<Slash>>)
    IN  IF EndsInSlash(relative) THEN Front(relative) ELSE relative

Join(dir, path) ==
    CASE dir = << >>  -> path
      [] path = << >> -> dir
      [] OTHER        -> dir \o <<Slash>> \o path

\* filepath.Dir and filepath.Base of a clean path.
LastSlash(path) == Max({0} \cup {i \in DOMAIN path : path[i] = Slash})
Base(path) == SubSeq(path, LastSlash(path) + 1, Len(path))
Dir(path)  == SubSeq(path, 1, LastSlash(path) - 1)

\* What a user means by "in the directory", which the code does not ask.
Inside(path, dir) == dir = << >> \/ HasPrefix(path, Append(dir, Slash))
=============================================================================
