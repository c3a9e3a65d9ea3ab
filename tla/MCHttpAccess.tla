---------------------------- MODULE MCHttpAccess ----------------------------
(* A directory below the root, two users, a password file and two possible *)
(* .htaccess files, two edits within two seconds; a request with no path.  *)
EXTENDS HttpAccess, TLC

CONSTANTS root, sub, u1, u2

MCUsers    == {u1, u2}
MCDirs     == {root, sub}
MCParent   == [d \in MCDirs |-> IF d = sub THEN root ELSE None]
MCContents == {{u1}, {u1, u2}}
MCRequests ==
  {[user |-> u2, dir |-> d, header |-> "basic"] : d \in MCDirs \cup {None}} \cup
  {[user |-> u1, dir |-> sub, header |-> "bad"]}

(* Workers differ only in identity, and no property here is a liveness one. *)
MCSymmetry == Permutations(Workers)
=============================================================================
