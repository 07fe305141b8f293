------------------------------- MODULE MCPage -------------------------------
(* Values of Pages for TLC: all short pages, and the page of the firmware. *)
EXTENDS Page, SequencesExt

ShortTexts == {"apSsid", "roomNo", "other", "NUL"}
ShortPages == {Append(s, Nul) : s \in BoundedSeq(Pieces \ {Nul}, 6)}

TheTexts == Known \cup {"html", "script", "NUL"}

Placeholder(n) == <<Text("html"), Percent, Text(n), Percent>>

\* index.html: the title (line 5), the script's percent sign (line 99), the heading and
\* the cells (lines 138-236).
ThePage == {FlattenSeq(<<
  Placeholder("deviceName"),
  <<Text("script"), Percent, Text("script")>>,
  Placeholder("deviceName"), Placeholder("apSsid"),
  Placeholder("wifiRssi"), Placeholder("wifiQuality"), Placeholder("wifiIp"),
  Placeholder("mac"), Placeholder("roomNo"),
  Placeholder("ch1DeviceNo"), Placeholder("isCh1Live"), Placeholder("ch1Mode"),
  Placeholder("ch1CurrW"), Placeholder("ch1FlowW"), Placeholder("ch1CurrD"),
  Placeholder("ch1EndDelayW"), Placeholder("ch1EndDelayD"),
  Placeholder("ampsTrms1"), Placeholder("waterSensorData1"), Placeholder("lHour1"),
  Placeholder("ch2DeviceNo"), Placeholder("isCh2Live"), Placeholder("ch2Mode"),
  Placeholder("ch2CurrW"), Placeholder("ch2FlowW"), Placeholder("ch2CurrD"),
  Placeholder("ch2EndDelayW"), Placeholder("ch2EndDelayD"),
  Placeholder("ampsTrms2"), Placeholder("waterSensorData2"), Placeholder("lHour2"),
  Placeholder("flashSize"), Placeholder("heap"), Placeholder("buildVer"),
  <<Text("html"), Nul>> >>)}
=============================================================================
