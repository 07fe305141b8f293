-------------------------------- MODULE Page --------------------------------
(***************************************************************************)
(* GET /: root_get_handler of osj_http.c sends the embedded page with its  *)
(* %name% placeholders replaced, in chunks.  A page is a sequence of       *)
(* percent signs and of the texts between them.  Of a value only its name  *)
(* and whether it is empty are kept: a chunk of length zero ends a chunked *)
(* response, and the client takes no part of it that is sent later.        *)
(***************************************************************************)
EXTENDS Integers, Sequences, FiniteSets

CONSTANTS
  Texts,     \* the texts a page may have between its percent signs
  Pages      \* the pages the firmware may be built with

Piece(k, t) == [kind |-> k, of |-> t]
Percent  == Piece("percent", "")
Text(t)  == Piece("text", t)
Value(n) == Piece("value", n)

\* EMBED_TXTFILES ends the page with a NUL, which is within index_html_end.
Nul == Text("NUL")

Pieces == {Percent} \cup {Text(t) : t \in Texts}

ASSUME PagesAssumption ==
  \A p \in Pages : p \in Seq(Pieces) /\ p # <<>> /\ p[Len(p)] = Nul

\* IS_TOKEN of the loop.
Known ==
  {"deviceName", "apSsid", "wifiRssi", "wifiQuality", "wifiIp", "mac", "roomNo", "heap",
   "ch1DeviceNo", "isCh1Live", "ch1Mode", "ch1CurrW", "ch1FlowW", "ch1CurrD", "ch1EndDelayW",
   "ch1EndDelayD", "ampsTrms1", "waterSensorData1", "lHour1",
   "ch2DeviceNo", "isCh2Live", "ch2Mode", "ch2CurrW", "ch2FlowW", "ch2CurrD", "ch2EndDelayW",
   "ch2EndDelayD", "ampsTrms2", "waterSensorData2", "lHour2", "flashSize", "buildVer"}

\* The settings a request may have left empty: by default, or by a form.
MayBeEmpty == {"apSsid", "roomNo", "ch1DeviceNo"}

VARIABLES
  page,        \* index_html_start
  empty,       \* the settings that are empty when the handler copies them
  ptr,         \* the next piece to look at
  out,         \* the pieces handed to httpd_resp_send_chunk
  got,         \* the pieces the client takes for the response
  cut,         \* a chunk of length zero has ended the response
  pc           \* "scan" or "done"

vars == <<page, empty, ptr, out, got, cut, pc>>

Init == /\ page \in Pages /\ empty \in SUBSET (MayBeEmpty \cap Texts)
        /\ ptr = 1 /\ out = <<>> /\ got = <<>> /\ cut = FALSE /\ pc = "scan"

-----------------------------------------------------------------------------
(* The loop.                                                               *)

\* strchr: t is the first percent sign from i on.
FirstPercent(i, t) ==
  /\ t \in i..Len(page) /\ page[t] = Percent
  /\ \A j \in i..(t - 1) : page[j] # Percent
NoPercent(i) == \A j \in i..Len(page) : page[j] # Percent

Between(t, e) == SubSeq(page, t + 1, e - 1)

\* Texts of the page: none of length zero is sent (lines 69, 77).
Sends(s) ==
  /\ out' = out \o s
  /\ got' = IF cut THEN got ELSE got \o s
  /\ cut' = cut

\* send_chunk of a value, after the text before its name.
SendsValue(s, n) ==
  /\ out' = out \o (s \o <<Value(n)>>)
  /\ got' = IF cut THEN got ELSE IF n \in empty THEN got \o s ELSE got \o (s \o <<Value(n)>>)
  /\ cut' = (cut \/ n \in empty)

Breaks == pc' = "done" /\ UNCHANGED <<page, empty, ptr>>

ResumeAtToken(t, e) == t                 \* mutant: ptr = token_start
ResumeAtEnd(t, e) == e                   \* mutant: ptr = token_end
ResumePast(t, e) == e + 2                \* mutant: ptr = token_end + 2
Resume(t, e) == e + 1
Continues(t, e) == ptr' = Resume(t, e) /\ UNCHANGED <<page, empty, pc>>

NoToken ==
  /\ pc = "scan"
  /\ NoPercent(ptr)
  /\ Sends(SubSeq(page, ptr, Len(page)))
  /\ Breaks

\* A percent sign without another one: what follows is sent as it is.
LonePercent(t) ==
  /\ pc = "scan"
  /\ FirstPercent(ptr, t) /\ NoPercent(t + 1)
  /\ Sends(SubSeq(page, ptr, t - 1) \o SubSeq(page, t, Len(page)))
  /\ Breaks

Token(t, e) ==
  /\ pc = "scan"
  /\ FirstPercent(ptr, t) /\ FirstPercent(t + 1, e)

EmptyToken(t, e) ==
  /\ Token(t, e) /\ Between(t, e) = <<>>
  /\ Sends(SubSeq(page, ptr, t - 1) \o <<Percent>>)
  /\ Continues(t, e)

KnownToken(t, e, n) ==
  /\ Token(t, e) /\ Between(t, e) = <<Text(n)>>
  /\ SendsValue(SubSeq(page, ptr, t - 1), n)
  /\ Continues(t, e)

UnknownToken(t, e) ==
  /\ Token(t, e) /\ Between(t, e) # <<>>
  /\ \A n \in Known : Between(t, e) # <<Text(n)>>
  /\ Sends(SubSeq(page, ptr, t - 1) \o SubSeq(page, t, e))
  /\ Continues(t, e)

Next ==
  \/ NoToken
  \/ \E t \in DOMAIN page :
       \/ LonePercent(t)
       \/ \E e \in DOMAIN page :
            \/ EmptyToken(t, e)
            \/ \E n \in Known : KnownToken(t, e, n)
            \/ UnknownToken(t, e)

Spec == Init /\ [][Next]_vars

-----------------------------------------------------------------------------
(* What a page should become, said of each of its pieces alone: the odd    *)
(* percent signs open and the even ones close.                             *)

Percents(p, i) == {j \in 1..i : p[j] = Percent}
Opens(p, i)  == p[i] = Percent /\ Cardinality(Percents(p, i)) % 2 = 1
Closes(p, i) == p[i] = Percent /\ Cardinality(Percents(p, i)) % 2 = 0

Empty(p, i)  == i \in DOMAIN p /\ i > 1 /\ Closes(p, i) /\ Opens(p, i - 1)
Filled(p, i) == /\ i - 1 \in DOMAIN p /\ i + 1 \in DOMAIN p
                /\ Opens(p, i - 1) /\ Closes(p, i + 1) /\ p[i].of \in Known

Shown(p, i) ==
  CASE Filled(p, i) -> <<Value(p[i].of)>>
    [] Filled(p, i - 1) \/ Filled(p, i + 1) \/ Empty(p, i) -> <<>>
    [] OTHER -> <<p[i]>>

\* What the first n pieces become.
Rendered(p, n) ==
  LET upTo[i \in 0..n] == IF i = 0 THEN <<>> ELSE upTo[i - 1] \o Shown(p, i)
  IN upTo[n]

TypeOK ==
  /\ page \in Pages /\ empty \in SUBSET MayBeEmpty /\ pc \in {"scan", "done"}
  /\ ptr \in 1..Len(page)
  /\ out \in Seq(Pieces \cup {Value(n) : n \in Known})
  /\ got \in Seq(Pieces \cup {Value(n) : n \in Known}) /\ cut \in BOOLEAN

\* A pass begins outside every pair of percent signs.
Paired == pc = "scan" => Cardinality(Percents(page, ptr - 1)) % 2 = 0

Looked == IF pc = "done" THEN Len(page) ELSE ptr - 1
SentIsRendered == out = Rendered(page, Looked)

\* The client has all of s, or what of it comes before the first empty value.
IsEmpty(x) == x.kind = "value" /\ x.of \in empty
UpToEmpty(s, k) == /\ k \in DOMAIN s /\ IsEmpty(s[k])
                   /\ \A i \in 1..(k - 1) : ~IsEmpty(s[i])
                   /\ got = SubSeq(s, 1, k - 1)
ClientHas(s) == IF cut THEN \E k \in DOMAIN s : UpToEmpty(s, k)
                ELSE got = s /\ \A i \in DOMAIN s : ~IsEmpty(s[i])

PageInv == TypeOK /\ Paired /\ SentIsRendered /\ ClientHas(out)

\* At every pass the response is what the page should become up to there: no piece is
\* lost, doubled or out of place, and a name is replaced exactly if an even number of
\* percent signs precedes its own two (the loop of root_get_handler, lines 69-188); but if
\* a setting to be shown is empty, the response ends before it, for good (line 29).
ResponseIsRendered == ClientHas(Rendered(page, Looked))

\* Every pass of the loop moves on or ends it, so a page of any shape keeps the only
\* httpd task for a bounded time (lines 69-188).
MovesOn == [][ptr' > ptr \/ pc' = "done"]_vars

\* No placeholder is received as it stands in the page (index.html line 148 and following,
\* and the names osj_http.c lines 98-181 replace).
NoneLeft ==
  pc = "done" => \A i \in 2..(Len(got) - 1) :
    ~(got[i - 1] = Percent /\ got[i + 1] = Percent /\ got[i].kind = "text" /\ got[i].of \in Known)
=============================================================================
