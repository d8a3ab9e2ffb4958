----------------------------- MODULE MCSettings -----------------------------
(* Scripts of one or two sessions on nine computers.  A session alone has *)
(* up to three clicks, four on the video page; the first of two leaves     *)
(* what the second finds.                                                  *)
EXTENDS Settings

Text(hex_, digits_) == [hex |-> hex_, digits |-> digits_]

MCEdits == [trigger |-> {0, 45}, delay |-> {0, 99}, time |-> {75, 1830}, sep |-> {".", "-"},
            svboot |-> {Text(TRUE, <<>>), Text(TRUE, <<4, 0, 1, 12>>), Text(FALSE, <<6, 5, 5, 3, 7>>),
                        Text(FALSE, <<4, 14>>)}]

MCTyped == [date1 |-> {0, 13, 29}, date2 |-> {2, 31}, year |-> {1979, 2003},
            hour |-> {0, 24}, minute |-> {59, 60}, delay |-> {0, 255, 256}, id |-> {0, 8}]

Falcon == [cpu |-> "060", rev |-> 6, half |-> FALSE, sv |-> FALSE, zcontrol |-> FALSE,
           cookie |-> TRUE, lc |-> FALSE, exits |-> <<"reset", "rcold", "diag">>]

\* the mode with the given colours: 80 columns, VGA
Video(planes) == [planes |-> planes, c80 |-> TRUE, vga |-> TRUE, pal |-> TRUE, ovr |-> FALSE,
                  st |-> FALSE, vert |-> FALSE]

MCNvram == [bootpref |-> 0, language |-> 2, keyboard |-> 2, df |-> 1, tf |-> 1, sep |-> "/",
            delay |-> 5, vmode |-> Video(3), arb |-> 1, id |-> 7]

MCFlash(nv, magic, freq) ==
  [tosram |-> 0, blitter |-> 1, bootorder |-> 1, bootlog |-> 1, cpufpu |-> 1, clock |-> freq,
   sv |-> [boot |-> SV_DEFAULT.boot, dvi |-> SV_DEFAULT.dvi, chk |-> SV_DEFAULT.chk, version |-> magic], tlv |-> 0, ctpci |-> 0,
   nv1 |-> [magic |-> magic, bootpref |-> nv.bootpref],
   nv2 |-> [f \in {"language", "keyboard", "df", "tf", "sep"} |-> nv[f]],
   nv3 |-> [f \in {"delay", "vmode", "arb", "id"} |-> nv[f]]]

OnPage(page, clicks) == [who |-> "panel", page |-> page, about |-> {}, keys |-> {}, clicks |-> clicks]
About(what, clicks) == [who |-> "setup", page |-> "none", about |-> what,
                        keys |-> {"up", "down", "left", "right"}, clicks |-> clicks]

From(machine_, chip_, nv, magic, bad, sessions_) ==
  [machine |-> machine_, chip |-> chip_, nvram |-> nv,
   flash |-> MCFlash(nv, magic, 66000), disk |-> config, faults |-> bad, sessions |-> sessions_]

Odd == [MCNvram EXCEPT !.language = 7, !.keyboard = 18, !.delay = 255,
                       !.vmode = [Video(3) EXCEPT !.st = TRUE]]

Rev1      == [Falcon EXCEPT !.rev = 1]
Strap     == [Falcon EXCEPT !.half = TRUE]
SuperV    == [Falcon EXCEPT !.sv = TRUE, !.zcontrol = TRUE]
Plain     == [Falcon EXCEPT !.cpu = "030"]
Desktop   == [Falcon EXCEPT !.exits = <<"continue">>]
NotFound  == [Falcon EXCEPT !.cookie = FALSE, !.exits = <<"reset", "rcold">>]

DallasChip == Dallas(70000)
CyChip     == Cypress(100000)

PanelAlone ==
  {From(Falcon, CyChip, MCNvram, FALSE, 0, <<OnPage("VIDEO", 4)>>),
   From(Falcon, CyChip, Odd, FALSE, 0, <<OnPage("LANG", 2)>>),
   From(Rev1, DallasChip, MCNvram, TRUE, 1, <<OnPage("BOOT", 2)>>),
   From(Falcon, CyChip, MCNvram, FALSE, 0, <<OnPage("STOP", 2)>>),
   From(SuperV, CyChip, MCNvram, TRUE, 1, <<OnPage("SV", 3)>>),
   From(Plain, NoChip, MCNvram, FALSE, 0, <<OnPage("MEMORY", 2)>>),
   From(Plain, CyChip, MCNvram, FALSE, 1, <<OnPage("MEMORY", 2)>>)}
ClockAlone ==
  {From(Rev1, DallasChip, MCNvram, FALSE, 1, <<OnPage("MEMORY", 2), OnPage("MEMORY", 1)>>),
   From(Falcon, CyChip, MCNvram, FALSE, 1, <<OnPage("MEMORY", 2), OnPage("MEMORY", 1)>>),
   From(Strap, DallasChip, MCNvram, FALSE, 0, <<OnPage("MEMORY", 1), OnPage("MEMORY", 1)>>),
   From(Rev1, Dallas(60000), MCNvram, FALSE, 0, <<OnPage("MEMORY", 1), OnPage("MEMORY", 1)>>),
   From([Rev1 EXCEPT !.half = TRUE], Dallas(64000), MCNvram, FALSE, 0,
        <<OnPage("MEMORY", 2), OnPage("MEMORY", 0)>>)}
SetupAlone ==
  {From(Falcon, CyChip, MCNvram, FALSE, 0, <<About({"date1", "date2", "year", "dfmt"}, 3)>>),
   From(Desktop, CyChip, Odd, FALSE, 0, <<About({"res", "planes", "hz", "st"}, 2)>>),
   From(Desktop, CyChip, MCNvram, TRUE, 1, <<About({"fpu", "blit", "freq"}, 3)>>),
   From(Falcon, DallasChip, MCNvram, FALSE, 1, <<About({"newboot", "order", "pciide"}, 3)>>),
   From(NotFound, NoChip, MCNvram, FALSE, 0, <<About({"log", "tos", "hour"}, 2)>>)}
Both ==
  {From(Desktop, CyChip, MCNvram, FALSE, 0,
        <<About({"keyboard", "delay"}, 2), OnPage("LANG", 1)>>),
   From(Desktop, CyChip, MCNvram, FALSE, 0, <<About({"freq"}, 3), OnPage("MEMORY", 1)>>),
   From(Falcon, CyChip, MCNvram, FALSE, 0, <<OnPage("LANG", 1), About({"language"}, 1)>>)}

\* a 68060 of the first revisions at 70 MHz, and the key that lowers the frequency;
\* then the panel, of which only OK is used
MCRated ==
  {From(Rev1, DallasChip, MCNvram, FALSE, 0,
        <<[About({"freq"}, 24) EXCEPT !.keys = {"left"}], OnPage("MEMORY", 0)>>)}

MCStarts == PanelAlone \cup ClockAlone \cup SetupAlone \cup Both
=============================================================================
