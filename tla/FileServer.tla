----------------------------- MODULE FileServer -----------------------------
(***************************************************************************)
(* The file server of pkg/web/serve.go: NewFileServer reads a tree of      *)
(* files once, options and later calls add aliases, headers and hooks, and *)
(* ServeHTTP answers from memory.                                          *)
(*                                                                         *)
(* An alias is a second key to the same file object, so headers applied    *)
(* under one of its names show under all.  Headers are set in the order in *)
(* which they were added, those for all files first, and the response hooks *)
(* come after them: the last one stands.  Content types are left out.       *)
(***************************************************************************)
EXTENDS Naturals, Sequences, FiniteSetsExt

CONSTANTS
  Disk,     \* the files: records of dir, name and readable
  Aliases,  \* URIs that are given as aliases
  Keys,     \* names of headers
  Values,   \* values of headers
  MaxCalls  \* bound: calls that change the server

VARIABLES
  uris,     \* fs.files: the file of each URI
  headers,  \* the headers of each file
  globals,  \* fs.headers
  hooks,    \* the kinds of hooks that were added
  calls,    \* calls so far
  answer,   \* the last answer
  applied,  \* (history) headers in the order of the calls: URI, key and value
  origin    \* (history) the URI that each alias was made for

fileVars    == <<uris, headers, globals, hooks, answer>>
historyVars == <<applied, origin>>
serverVars  == <<fileVars, calls, historyVars>>

NoAnswer == [status |-> 0]

\* A header for all files, in the history.
AllFiles == <<"*">>

\* An index.html answers for its directory.
Uri(f) == IF f.name = "index.html" THEN f.dir ELSE Append(f.dir, f.name)

\* A name in a directory is that of one file or of one directory, so that no
\* two files have the same URI; and the mark of the history is none.
ASSUME UriAssumption ==
  /\ \A f, g \in Disk : Uri(f) = Uri(g) => f = g
  /\ AllFiles \notin Aliases \cup {Uri(f) : f \in Disk}

\* The walk ends with an error when a file cannot be read or unpacked.
Walks == \A f \in Disk : f.readable

FileServerInit ==
  /\ Walks
  /\ uris = [u \in {Uri(f) : f \in Disk} |-> CHOOSE f \in Disk : Uri(f) = u]
  /\ headers = [f \in Disk |-> <<>>] /\ globals = <<>> /\ hooks = {}
  /\ calls = 0 /\ answer = NoAnswer
  /\ applied = <<>> /\ origin = [u \in {Uri(f) : f \in Disk} |-> u]

Call == calls < MaxCalls /\ calls' = calls + 1 /\ answer' = NoAnswer
-----------------------------------------------------------------------------
(* What changes the server.                                                *)

\* Alias: an error when the alias is a URI already or the file unknown.
Alias(o, a) ==
  /\ Call
  /\ a \notin DOMAIN uris /\ o \in DOMAIN uris
  /\ uris' = [u \in DOMAIN uris \cup {a} |-> IF u = a THEN uris[o] ELSE uris[u]]
  /\ origin' = [u \in DOMAIN uris \cup {a} |-> IF u = a THEN origin[o] ELSE origin[u]]
  /\ UNCHANGED <<headers, globals, hooks, applied>>

\* ApplyHeaders, also as the option WithURIHeaders, which drops the error.
ApplyHeaders(u, k, v) ==
  /\ Call /\ u \in DOMAIN uris
  /\ headers' = [headers EXCEPT ![uris[u]] = Append(@, [key |-> k, val |-> v])]
  /\ applied' = Append(applied, <<u, k, v>>)
  /\ UNCHANGED <<uris, globals, hooks, origin>>

\* ApplyGlobalHeaders and WithGlobalHeaders.
ApplyGlobalHeaders(k, v) ==
  /\ Call
  /\ globals' = Append(globals, [key |-> k, val |-> v])
  /\ applied' = Append(applied, <<AllFiles, k, v>>)
  /\ UNCHANGED <<uris, headers, hooks, origin>>

WithHook(kind) ==
  /\ Call /\ kind \notin hooks
  /\ hooks' = hooks \cup {kind}
  /\ UNCHANGED <<uris, headers, globals, applied, origin>>
-----------------------------------------------------------------------------
(* ServeHTTP.                                                              *)

\* (mutant: the headers for all files are set last)
GlobalsLast(f) == headers[f] \o globals

InOrder(f) == globals \o headers[f]

\* header.Set, one after the other; "" is no header.
HeadersOf(f) ==
  [k \in Keys |->
    LET set == {i \in DOMAIN InOrder(f) : InOrder(f)[i].key = k}
    IN IF set = {} THEN "" ELSE InOrder(f)[Max(set)].val]

\* Pre hooks, the method, the file, request hooks, headers, response hooks, in
\* this order; an error of the web package brings a status of its own, here 500
\* like the others.
Status(method, u, fails) ==
  CASE "pre" \in fails -> 500
    [] "pre" \notin fails /\ method # "GET" -> 405
    [] "pre" \notin fails /\ method = "GET" /\ u \notin DOMAIN uris -> 404
    [] "pre" \notin fails /\ method = "GET" /\ u \in DOMAIN uris /\ fails # {} -> 500
    [] OTHER -> 200

\* What the response hooks make of the headers: of some keys other values, or
\* no header.
Changes == UNION {[some -> Values \cup {""}] : some \in SUBSET Keys}

\* A request with this method and path: the client's, or what the pre hooks, which
\* are given it to change, have made of it (`by`).  Hooks of the kinds `fails`
\* fail; a response hook that fails leaves the headers and no body.
ServeHTTP(method, u, by, fails, made) ==
  /\ fails \subseteq hooks
  /\ by # "client" => "pre" \in hooks
  /\ DOMAIN made # {} => "response" \in hooks
  /\ LET status == Status(method, u, fails)
         headed == method = "GET" /\ u \in DOMAIN uris /\ fails \subseteq {"response"}
     IN answer' = [status |-> status, uri |-> u, by |-> by,
                   body |-> IF status = 200 THEN {uris[u]} ELSE {},
                   made |-> IF headed THEN DOMAIN made ELSE {},
                   headers |-> [k \in Keys |->
                     CASE headed /\ k \in DOMAIN made -> made[k]
                       [] headed /\ k \notin DOMAIN made -> HeadersOf(uris[u])[k]
                       [] OTHER -> ""]]
  /\ UNCHANGED <<uris, headers, globals, hooks, calls, applied, origin>>

FileServerNext ==
  \/ \E u \in DOMAIN uris \cup Aliases :
       \/ \E a \in DOMAIN uris \cup Aliases : Alias(u, a)
       \/ \E k \in Keys, v \in Values : ApplyHeaders(u, k, v)
  \/ \E k \in Keys, v \in Values : ApplyGlobalHeaders(k, v)
  \/ \E kind \in {"pre", "request", "response"} : WithHook(kind)
  \/ \E method \in {"GET", "HEAD"}, u \in DOMAIN uris \cup Aliases, by \in {"client", "pre"},
        fails \in SUBSET hooks, made \in Changes : ServeHTTP(method, u, by, fails, made)

FileServerSpec == FileServerInit /\ [][FileServerNext]_serverVars
-----------------------------------------------------------------------------
\* The calls that applied a header to a file, under any of its names, and those
\* that applied it to all files.
AppliedTo(u, k) ==
  {i \in DOMAIN applied : /\ applied[i][1] # AllFiles /\ applied[i][2] = k
                          /\ origin[applied[i][1]] = origin[u]}

AppliedToAll(k) == {i \in DOMAIN applied : applied[i][1] = AllFiles /\ applied[i][2] = k}

\* The value a client has to see: the last one applied to the file, else the
\* last one for all files.
Expected(u, k) ==
  CASE AppliedTo(u, k) # {} -> applied[Max(AppliedTo(u, k))][3]
    [] AppliedTo(u, k) = {} /\ AppliedToAll(k) # {} -> applied[Max(AppliedToAll(k))][3]
    [] OTHER -> ""

\* Whatever aliases and headers were added, in any order: a file of the tree
\* keeps its URI, and a request that is answered gets the bytes of the file that
\* its path was made for - the path that the pre hooks left, which without one
\* is that of the client's request - and each header that no response hook
\* changed is that which was last applied to the file under any of its names.
ServesAsApplied ==
  /\ \A f \in Disk : uris[Uri(f)] = f
  /\ answer.status = 200 =>
       \E u \in DOMAIN uris :
         /\ answer.uri = u /\ answer.body = {uris[origin[u]]}
         /\ answer.by # "client" => "pre" \in hooks
         /\ \A k \in Keys \ answer.made : answer.headers[k] = Expected(u, k)
         /\ answer.made # {} => "response" \in hooks
=============================================================================
