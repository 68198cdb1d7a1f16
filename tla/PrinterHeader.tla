---------------------------- MODULE PrinterHeader ----------------------------
(***************************************************************************)
(* The Header element of XmlPrinter::initXmlDoc (src/src/xml_printer.cpp), *)
(* written by printer calls on several threads (spec, section 5: printer  *)
(* entry points are safe for concurrent invocation).  The sender is the    *)
(* function-local `static std::string sHostname`: a call that finds it     *)
(* empty resolves the host name into it (get_local_hostname, then          *)
(* "localhost" on failure) with no lock, then reads it into the sender     *)
(* attribute.                                                              *)
(*                                                                         *)
(* A string assignment and the copy addAttribute makes are not atomic:    *)
(* each is a begin step and an end step, and the accesses in progress are *)
(* read off the threads' positions.  The other attributes are their names *)
(* only; the document kind of a call is chosen when it starts.            *)
(*                                                                         *)
(* printError is the one entry point modelled whole: its writer, the       *)
(* header, the Errors/Error element and getContent, any libxml failure     *)
(* caught into an empty result.  The bodies of the other entry points are  *)
(* the modules of their printers.                                          *)
(***************************************************************************)
EXTENDS Naturals, Sequences, FiniteSets

CONSTANTS
  Printers,    \* threads calling printer entry points
  Host,        \* the name get_local_hostname gives
  Resolvable,  \* BOOLEAN set: whether get_local_hostname may succeed, fail
  ErrorCodes,  \* errorCode arguments of printError ("" allowed)
  ErrorTexts   \* errorText arguments of printError ("" allowed)

Kinds == {"Error", "Devices", "Streams", "Assets"}

VARIABLES
  sHostname,  \* the static string
  hpc,        \* [Printers -> position in the header code]
  kind,       \* [Printers -> document kind of the current call]
  counts,     \* [Printers -> whether a non-empty asset count map was given]
  header,     \* [Printers -> the header attributes the last call wrote]
  error,      \* [Printers -> the errorCode and errorText of a printError call]
  result      \* [Printers -> the document the last printError call returned]

vars == <<sHostname, hpc, kind, counts, header, error, result>>

\* The empty string a failed printError returns.
NoDocument == [header |-> <<>>, errors |-> <<>>]

\* The names of the attributes and children of Header after sender, for a
\* document of kind k; the AssetCounts element only for Devices with counts.
KindAttributes(k, c) ==
  <<"instanceId", "version">>
    \o (IF k \in {"Assets", "Devices"} THEN <<"assetBufferSize", "assetCount">> ELSE <<>>)
    \o (IF k \in {"Devices", "Error", "Streams"} THEN <<"bufferSize">> ELSE <<>>)
    \o (IF k = "Streams" THEN <<"nextSequence", "firstSequence", "lastSequence">> ELSE <<>>)
    \o (IF k = "Devices" /\ c THEN <<"AssetCounts">> ELSE <<>>)

\* The whole header: creationTime, sender (addAttribute skips an empty
\* value), then the rest.
HeaderAttributes(k, c, sender) ==
  <<[name |-> "creationTime", value |-> ""]>>
    \o (IF sender # "" THEN <<[name |-> "sender", value |-> sender]>> ELSE <<>>)
    \o [i \in 1..Len(KindAttributes(k, c)) |-> [name |-> KindAttributes(k, c)[i], value |-> ""]]

Init ==
  /\ sHostname = ""
  /\ hpc = [t \in Printers |-> "idle"]
  /\ kind = [t \in Printers |-> "Error"]
  /\ counts = [t \in Printers |-> FALSE]
  /\ header = [t \in Printers |-> <<>>]
  /\ error = [t \in Printers |-> [code |-> "", text |-> ""]]
  /\ result = [t \in Printers |-> NoDocument]

Goto(t, from, to) == hpc[t] = from /\ hpc' = [hpc EXCEPT ![t] = to]

\* A printer entry point other than printError reaches the Header element
\* of its document and starts reading sHostname.empty().
Begin(t, k, c) ==
  /\ k # "Error"
  /\ Goto(t, "idle", "checking")
  /\ kind' = [kind EXCEPT ![t] = k]
  /\ counts' = [counts EXCEPT ![t] = c /\ k = "Devices"]
  /\ UNCHANGED <<sHostname, header, error, result>>

\* if (sHostname.empty()): the read completes and the branch is taken.
Check(t) ==
  /\ hpc[t] = "checking"
  /\ hpc' = [hpc EXCEPT ![t] = IF sHostname = "" THEN "resolve" ELSE "send"]
  /\ UNCHANGED <<sHostname, kind, counts, header, error, result>>

\* get_local_hostname(sHostname) starts assigning the string.
Resolve(t) ==
  /\ Goto(t, "resolve", "resolving")
  /\ UNCHANGED <<sHostname, kind, counts, header, error, result>>

\* The assignment completes: the host name, or on failure (a non-zero
\* return) the string is left as it was and "localhost" is assigned next.
Resolved(t) ==
  /\ hpc[t] = "resolving"
  /\ \E ok \in Resolvable :
       IF ok THEN sHostname' = Host /\ hpc' = [hpc EXCEPT ![t] = "send"]
       ELSE UNCHANGED sHostname /\ hpc' = [hpc EXCEPT ![t] = "fallback"]
  /\ UNCHANGED <<kind, counts, header, error, result>>

\* sHostname = "localhost" starts assigning the string.
Fallback(t) ==
  /\ Goto(t, "fallback", "falling")
  /\ UNCHANGED <<sHostname, kind, counts, header, error, result>>

\* The assignment of "localhost" completes.
FellBack(t) ==
  /\ Goto(t, "falling", "send")
  /\ sHostname' = "localhost"
  /\ UNCHANGED <<kind, counts, header, error, result>>

\* addAttribute(writer, "sender", sHostname) starts copying the string.
Send(t) ==
  /\ Goto(t, "send", "sending")
  /\ UNCHANGED <<sHostname, kind, counts, header, error, result>>

\* The copy completes and the rest of the header is written; printError
\* goes on to its body, the other entry points to theirs.
Sent(t) ==
  /\ Goto(t, "sending", IF kind[t] = "Error" THEN "errors" ELSE "idle")
  /\ header' = [header EXCEPT ![t] = HeaderAttributes(kind[t], counts[t], sHostname)]
  /\ UNCHANGED <<sHostname, kind, counts, error, result>>

\* printError(instanceId, bufferSize, nextSeq, errorCode, errorText): the
\* XmlWriter is constructed and initXmlDoc writes the root element.
PrintError(t, code, text) ==
  /\ Goto(t, "idle", "checking")
  /\ kind' = [kind EXCEPT ![t] = "Error"]
  /\ counts' = [counts EXCEPT ![t] = FALSE]
  /\ error' = [error EXCEPT ![t] = [code |-> code, text |-> text]]
  /\ UNCHANGED <<sHostname, header, result>>

\* addSimpleElement(writer, "Error", errorText, {{"errorCode", errorCode}})
\* inside Errors: addAttributes skips an empty value, an empty body writes
\* no text.
ErrorElement(e) ==
  [name |-> "Error",
   attrs |-> IF e.code = "" THEN <<>> ELSE <<[name |-> "errorCode", value |-> e.code]>>,
   text |-> e.text]

\* The Errors element, the closing of MTConnectError and getContent
\* succeed: the document is returned.
ErrorsWritten(t) ==
  /\ Goto(t, "errors", "idle")
  /\ result' = [result EXCEPT ![t] = [header |-> header[t], errors |-> <<ErrorElement(error[t])>>]]
  /\ UNCHANGED <<sHostname, kind, counts, header, error>>

\* A libxml call of the constructor, initXmlDoc or the body throws: the
\* catch logs it and the empty ret is returned.
ErrorFails(t) ==
  /\ kind[t] = "Error"
  /\ hpc[t] \in {"checking", "errors"}
  /\ hpc' = [hpc EXCEPT ![t] = "idle"]
  /\ result' = [result EXCEPT ![t] = NoDocument]
  /\ UNCHANGED <<sHostname, kind, counts, header, error>>

Next ==
  \E t \in Printers :
    \/ \E k \in Kinds, c \in BOOLEAN : Begin(t, k, c)
    \/ Check(t) \/ Resolve(t) \/ Resolved(t) \/ Fallback(t) \/ FellBack(t)
    \/ Send(t) \/ Sent(t)
    \/ \E c \in ErrorCodes, x \in ErrorTexts : PrintError(t, c, x)
    \/ ErrorsWritten(t) \/ ErrorFails(t)

Spec == Init /\ [][Next]_vars

-----------------------------------------------------------------------------

\* Threads reading or writing sHostname at this point.
Writing == {t \in Printers : hpc[t] \in {"resolving", "falling"}}
Reading == {t \in Printers : hpc[t] \in {"checking", "sending"}}

(* Concurrent printer calls never race on the cached sender (spec, section *)
(* 5: entry points are safe for concurrent invocation; section 4.4: the    *)
(* sender is resolved once and cached): while one call assigns sHostname,  *)
(* no other call reads or assigns it.                                      *)
NoHostnameRace ==
  Writing # {} => Cardinality(Writing) = 1 /\ Reading = {}
=============================================================================
