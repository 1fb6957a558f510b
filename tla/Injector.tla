------------------------------- MODULE Injector -------------------------------
(***************************************************************************)
(* The streaming HTML injector of the gate (internal/gate/inject.go): a    *)
(* reader around the origin's body that inserts the loader snippet at the  *)
(* first head boundary, whatever the sizes in which the body arrives.      *)
(*                                                                         *)
(* A page is a sequence of fragments, cut so that a tag or the marker may  *)
(* be split between two reads: "<head" is <<"<hea", "d">>, the marker is   *)
(* <<"<!--hmn-injected--", ">">>.  One step is one read of the origin or   *)
(* one decision of the look-ahead loop of Read.                            *)
(***************************************************************************)
EXTENDS Integers, Sequences

CONSTANTS InjPages,      \* bodies the origin may send
          maxLookahead,  \* in fragments
          InjChunk,      \* the most one read of the origin returns
          InjRead        \* the size of the caller's buffer

Fragments == UNION {{doc[i] : i \in DOMAIN doc} : doc \in InjPages}

ASSUME InjectorAssumption ==
  /\ {maxLookahead, InjChunk, InjRead} \subseteq Nat \ {0}
  /\ InjPages \subseteq Seq(Fragments)

VARIABLES injDoc,   \* the body the origin sends
          injSrc,   \* the part of it not read yet
          injFail,  \* the origin's connection broke (every later read fails)
          injPre, injBuf, injDone, injRes,  \* the fields of injectingReader
          injOut,   \* what Read returned
          injEnd    \* the error Read returned, "" before

injVars == <<injDoc, injSrc, injFail, injPre, injBuf, injDone, injRes, injOut, injEnd>>

injectMarker == <<"<!--hmn-injected--", ">">>
injSnippet == injectMarker \o <<"script">>

WithSnippet(doc, i) == SubSeq(doc, 1, i) \o injSnippet \o SubSeq(doc, i + 1, Len(doc))

headTag == <<"<hea", "d">>
headEnd == <<"</head", ">">>
bodyTag == <<"<body">>
tagEnd == <<">">>

\* The offset of the first occurrence of pat in b, -1 if there is none.
IndexOf(b, pat) ==
  LET at == {i \in 0..(Len(b) - Len(pat)) : SubSeq(b, i + 1, i + Len(pat)) = pat}
  IN  IF at = {} THEN -1 ELSE CHOOSE i \in at : \A j \in at : i <= j

findInsertionPoint(b) ==
  LET head == IndexOf(b, headTag)
      gt   == IndexOf(SubSeq(b, head + 1, Len(b)), tagEnd)
  IN  IF head >= 0 THEN IF gt >= 0 THEN head + gt + 1 ELSE -1
      ELSE IF IndexOf(b, headEnd) >= 0 THEN IndexOf(b, headEnd)
      ELSE IndexOf(b, bodyTag)

\* The tags of a page come in the order of HTML. Of a page with "<body" before
\* "<head" the reader takes whichever its look-ahead holds first.
InDocumentOrder(doc) ==
  LET Precedes(pat, i) == IndexOf(doc, pat) \in 0..(i - 1)
  IN  /\ ~Precedes(headEnd, IndexOf(doc, headTag)) /\ ~Precedes(bodyTag, IndexOf(doc, headTag))
      /\ IndexOf(doc, headTag) < 0 => ~Precedes(bodyTag, IndexOf(doc, headEnd))

ASSUME PagesAssumption == \A doc \in InjPages : InDocumentOrder(doc)

newInjectingReader ==
  /\ injDoc \in InjPages /\ injSrc = injDoc /\ injFail = FALSE
  /\ injPre = <<>> /\ injBuf = <<>> /\ injDone = FALSE /\ injRes = [injected |-> FALSE, reason |-> ""]
  /\ injOut = <<>> /\ injEnd = ""

Decided(pre, idx) ==
  /\ injBuf' = WithSnippet(pre, idx) /\ injRes' = [injected |-> TRUE, reason |-> ""]
  /\ injPre' = <<>> /\ injDone' = TRUE
Declined(pre, reason) ==
  /\ injBuf' = pre /\ injRes' = [injected |-> FALSE, reason |-> reason]
  /\ injPre' = <<>> /\ injDone' = TRUE

\* Faulty: the point may lie no further than the first read.
LookOnce(pre) ==
  LET idx == findInsertionPoint(pre)
  IN  IF IndexOf(pre, injectMarker) >= 0 THEN "already_present"
      ELSE IF idx >= 0 THEN "inject"
      ELSE IF pre # <<>> THEN "point_not_found"
      ELSE "read"

\* What one pass of the loop does with the bytes it holds: "read" asks for more.
Look(pre) ==
  LET idx == findInsertionPoint(pre)
  IN  IF IndexOf(pre, injectMarker) >= 0 THEN "already_present"
      ELSE IF idx >= 0 /\ Len(pre) >= idx + Len(injectMarker) THEN "inject"
      ELSE IF Len(pre) >= maxLookahead THEN "point_not_found"
      ELSE "read"

Looks ==
  /\ injEnd = "" /\ injBuf = <<>> /\ ~injDone
  /\ \/ Look(injPre) = "inject" /\ Decided(injPre, findInsertionPoint(injPre))
     \/ Look(injPre) \in {"already_present", "point_not_found"} /\ Declined(injPre, Look(injPre))
  /\ UNCHANGED <<injDoc, injSrc, injFail, injOut, injEnd>>

\* The origin's Read: some bytes, the end of the body (alone, or already with the
\* last bytes, as a body of declared length ends), or a broken connection.
Arrives(n) == IF injFail THEN n = 0 ELSE n \in 1..InjChunk /\ n <= Len(injSrc)

ReadsMore(n) ==
  /\ Arrives(n) /\ ~injFail
  /\ injPre' = injPre \o SubSeq(injSrc, 1, n) /\ injSrc' = SubSeq(injSrc, n + 1, Len(injSrc))
  /\ UNCHANGED <<injDoc, injFail, injBuf, injDone, injRes, injOut, injEnd>>

\* At the end of the body the point is taken as it is found; the marker is not looked for again.
ReadsEnd(n) ==
  LET pre == injPre \o SubSeq(injSrc, 1, n)
  IN  /\ ~injFail /\ n = Len(injSrc) /\ n <= InjChunk
      /\ injSrc' = <<>>
      /\ IF findInsertionPoint(pre) >= 0 THEN Decided(pre, findInsertionPoint(pre))
         ELSE Declined(pre, "point_not_found")
      /\ UNCHANGED <<injDoc, injFail, injOut, injEnd>>

ReadsFailure ==
  /\ injSrc # <<>> /\ injFail' = TRUE
  /\ Declined(injPre, "point_not_found")
  /\ UNCHANGED <<injDoc, injSrc, injOut, injEnd>>

LooksAhead ==
  /\ injEnd = "" /\ injBuf = <<>> /\ ~injDone /\ Look(injPre) = "read"
  /\ ReadsFailure \/ \E n \in 0..InjChunk : ReadsMore(n) \/ ReadsEnd(n)

\* Decided output is served first.
Serves ==
  LET n == IF Len(injBuf) < InjRead THEN Len(injBuf) ELSE InjRead
  IN  /\ injEnd = "" /\ injBuf # <<>>
      /\ injOut' = injOut \o SubSeq(injBuf, 1, n) /\ injBuf' = SubSeq(injBuf, n + 1, Len(injBuf))
      /\ UNCHANGED <<injDoc, injSrc, injFail, injPre, injDone, injRes, injEnd>>

\* Then the rest of the body, byte for byte.
PassesThrough ==
  /\ injEnd = "" /\ injDone /\ injBuf = <<>>
  /\ \/ \E n \in 1..InjRead :
          /\ Arrives(n) /\ ~injFail
          /\ injOut' = injOut \o SubSeq(injSrc, 1, n) /\ injSrc' = SubSeq(injSrc, n + 1, Len(injSrc))
          /\ UNCHANGED <<injFail, injEnd>>
     \/ /\ injFail \/ injSrc = <<>>
        /\ injEnd' = IF injFail THEN "err" ELSE "eof"
        /\ UNCHANGED <<injOut, injSrc, injFail>>
     \/ /\ ~injFail /\ injSrc # <<>> /\ injFail' = TRUE /\ injEnd' = "err"
        /\ UNCHANGED <<injOut, injSrc>>
  /\ UNCHANGED <<injDoc, injPre, injBuf, injDone, injRes>>

InjectorNext == Looks \/ LooksAhead \/ Serves \/ PassesThrough

InjectorSpec == newInjectingReader /\ [][InjectorNext]_injVars

(***************************************************************************)
(* Properties                                                              *)
(***************************************************************************)
InjectedBefore(doc) == IndexOf(doc, injectMarker) >= 0

\* The injector is add-only and blind to how the body is cut into reads
\* (inject.go:12): what was returned, what is held back and what is still to come
\* are together the origin's bytes with at most one snippet among them; in a page
\* without the marker it stands at the point the whole page has, and a complete
\* page goes without it only when the page has no such point within the look-ahead.
InjectionChunkingBlind ==
  LET whole == injOut \o injBuf \o injPre \o injSrc
      point == findInsertionPoint(injDoc)
  IN  /\ injRes.injected => \E i \in 0..Len(injDoc) : whole = WithSnippet(injDoc, i)
      /\ ~injRes.injected => whole = injDoc
      /\ injRes.injected /\ ~InjectedBefore(injDoc) => point >= 0 /\ whole = WithSnippet(injDoc, point)
      /\ injEnd = "eof" /\ ~injRes.injected /\ ~InjectedBefore(injDoc) =>
           point < 0 \/ point + Len(injectMarker) > maxLookahead
      /\ Len(injPre) < maxLookahead + InjChunk

===============================================================================
