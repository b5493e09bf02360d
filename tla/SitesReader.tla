----------------------------- MODULE SitesReader -----------------------------
(***************************************************************************)
(* shvsitesprovider (nodes.cpp): what its requests read in the directory   *)
(* of sites.  getSites returns the tree of sites below a path in one map;  *)
(* ls and get show the same files one node at a time, where the node       *)
(* "_meta" of a site stands for its file _meta.json and has the keys of    *)
(* the map in it below.                                                    *)
(*                                                                         *)
(* A client walks the tree with ls, dir, get and read.                     *)
(***************************************************************************)
EXTENDS Integers, Sequences, FiniteSets

CONSTANTS
  Dirs,       \* the directories there may be: sequences of names, a set closed under prefixes
  Files,      \* the files there may be beside _meta.json
  Metas       \* what a _meta.json may hold: sets of sequences of keys, closed under prefixes

Parent(p) == SubSeq(p, 1, Len(p) - 1)
Name(p) == p[Len(p)]

SitesReaderAssumption ==
  /\ <<>> \in Dirs /\ \A d \in Dirs \ {<<>>} : Parent(d) \in Dirs
  /\ \A f \in Files : Parent(f) \in Dirs
  /\ \A m \in Metas : <<>> \in m /\ \A k \in m \ {<<>>} : Parent(k) \in m

VARIABLES
  dirs, files,   \* what is in the file system
  meta,          \* the _meta.json of a directory: "none", "broken" or what it holds
  todo,          \* the paths that the client has yet to ask for
  found,         \* the values it has got, and the files it has read
  errors         \* the paths whose requests were answered with an exception

srVars == <<dirs, files, meta, todo, found, errors>>

None == [kind |-> "none", keys |-> {}]
Broken == [kind |-> "broken", keys |-> {}]
Holding(m) == [kind |-> "map", keys |-> m]
MetaContents == {None, Broken} \cup {Holding(m) : m \in Metas}

-----------------------------------------------------------------------------
(* nodes.cpp.                                                              *)

Hidden == {"_files", "_metal", "_x"}   \* names that start with an underscore
StartsWithMeta == {"_meta", "_metal"}

(* The first "/_meta" of the path counts; one at its beginning counts only *)
(* when there is no other.                                                 *)
MetaIxBelow(p) == {i \in 2 .. Len(p) : p[i] \in StartsWithMeta}
MetaIx(p) ==
  LET below == MetaIxBelow(p)
  IN  CASE below # {} -> CHOOSE i \in below : \A j \in below : i <= j
        [] below = {} /\ p # <<>> /\ p[1] \in StartsWithMeta -> 1
        [] OTHER -> 0

Invalid == [state |-> "invalid", keys |-> {}]
Thrown == [state |-> "thrown", keys |-> {}]
Below(m, k) == {SubSeq(l, Len(k) + 1, Len(l)) : l \in {n \in m : Len(n) >= Len(k) /\ SubSeq(n, 1, Len(k)) = k}}

(* metaValue: a broken file throws, whatever is asked for.                 *)
MetaValueAt(p, ix) ==
  IF ix = 0 \/ p[ix] # "_meta" THEN Invalid
  ELSE LET d == SubSeq(p, 1, ix - 1)
           keys == SubSeq(p, ix + 1, Len(p))
           content == IF d \in dirs THEN meta[d] ELSE None
       IN  CASE content.kind = "none" -> Invalid
             [] content.kind = "broken" -> Thrown
             [] content.kind = "map" /\ keys \in content.keys -> [state |-> "valid", keys |-> Below(content.keys, keys)]
             [] OTHER -> Invalid

MetaValueBelowRoot(p) == MetaValueAt(p, IF MetaIxBelow(p) = {} THEN 0 ELSE MetaIx(p))

MetaValue(p) == MetaValueAt(p, MetaIx(p))

Entries(d) == {Name(e) : e \in {e \in (dirs \ {<<>>}) \cup files : Parent(e) = d}}

(* lsDir, lsNode                                                           *)
LsDir(p) ==
  IF p \in dirs THEN Entries(p) \cup (IF meta[p] = None THEN {} ELSE {"_meta.json"}) ELSE {}

LsNode(p) ==
  IF MetaValue(p).state = "valid"
    THEN {k[1] : k \in MetaValue(p).keys \ {<<>>}}
    ELSE {IF n = "_meta.json" THEN "_meta" ELSE n : n \in LsDir(p)}

(* metaMethods: what dir tells that a path can do.  A device has the       *)
(* methods of a directory.                                                 *)
MetaMethods(p) ==
  CASE p = <<>> -> {"ls", "getSites"}
    [] p # <<>> /\ MetaValue(p).state = "valid" ->
         {"ls"} \cup (IF MetaValue(p).keys = {<<>>} /\ Name(p) # "_meta" THEN {"get"} ELSE {})
    [] p # <<>> /\ MetaValue(p).state # "valid" /\ (\E i \in DOMAIN p : p[i] = "_files" /\ i + 1 <= Len(p)) /\ p \in files ->
         {"ls", "read"}
    [] OTHER -> {"ls"} \cup (IF "_files" \in {p[i] : i \in DOMAIN p} THEN {} ELSE {"getSites"})

(* readFile opens any file; ReadFileCompressed of an unknown compression   *)
(* throws.                                                                 *)
ReadFile(p) == p \in files
ReadFileCompressed(p, type) == type = "qcompress" /\ ReadFile(p)

(* getSites: directories whose names start with an underscore are left     *)
(* out, and so is a broken file.                                           *)
GetSites(p) ==
  LET own(d) == IF meta[d].kind = "map" THEN {d \o <<"_meta">> \o k : k \in meta[d].keys} ELSE {}
      subs(d) == {n \in Entries(d) : n \notin Hidden /\ d \o <<n>> \in dirs}
      sites[d \in dirs] == {d} \cup own(d) \cup UNION {sites[d \o <<n>>] : n \in subs(d)}
  IN  sites[p]

-----------------------------------------------------------------------------
(* The client.                                                             *)

TypeOK ==
  /\ dirs \subseteq Dirs /\ files \subseteq Files /\ meta \in [dirs -> MetaContents]

Init ==
  /\ dirs \in {ds \in SUBSET Dirs : <<>> \in ds /\ \A d \in ds \ {<<>>} : Parent(d) \in ds}
  /\ files = {f \in Files : Parent(f) \in dirs}
  /\ meta \in [dirs -> MetaContents]
  /\ todo = {<<>>} /\ found = {} /\ errors = {}

(* It asks for dir, calls what that offers, and goes on with the children. *)
Ask ==
  /\ todo # {}
  /\ LET p == CHOOSE p \in todo : TRUE
     IN  IF p # <<>> /\ MetaValue(p).state = "thrown"
           THEN errors' = errors \cup {p} /\ todo' = todo \ {p} /\ UNCHANGED found
           ELSE /\ todo' = (todo \ {p}) \cup {p \o <<n>> : n \in LsNode(p)}
                /\ found' = found
                     \cup (IF "get" \in MetaMethods(p) THEN {<<"value", p>>} ELSE {})
                     \cup (IF "read" \in MetaMethods(p) /\ ReadFileCompressed(p, "qcompress")
                             THEN {<<"file", p>>} ELSE {})
                /\ UNCHANGED errors
  /\ UNCHANGED <<dirs, files, meta>>

Next == Ask

Spec == Init /\ [][Next]_srVars

(* A walk with ls, dir and get finds exactly the values that getSites      *)
(* returns, but for those of hidden directories; it reads the files below  *)
(* _files and no others; and an exception comes only from a _meta.json     *)
(* that getSites leaves out.                                               *)
IsPrefix(p, q) == Len(p) <= Len(q) /\ SubSeq(q, 1, Len(p)) = p
Values(ps) ==
  {p \in ps : /\ "_meta" \in {p[i] : i \in 1 .. Len(p) - 1}
              /\ \A q \in ps : IsPrefix(p, q) => p = q}
Shown(p) == \A i \in DOMAIN p : p[i] \notin Hidden

WalkFindsSites ==
  todo = {} =>
    /\ {v \in found : v[1] = "value" /\ Shown(v[2])} = {<<"value", p>> : p \in Values(GetSites(<<>>))}
    /\ \A f \in files : (<<"file", f>> \in found) = ("_files" \in {f[i] : i \in 1 .. Len(f) - 1})
    /\ \A e \in errors, q \in GetSites(<<>>) : ~IsPrefix(e, q)
=============================================================================
