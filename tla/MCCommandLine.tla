-------------------------- MODULE MCCommandLine --------------------------
(* Commands with every option, well and badly formed, with traces that are *)
(* given twice and that share the name of another file, and a few initial  *)
(* states of the files for each kind of PPS and payload.                   *)
EXTENDS CommandLine, TLC

Three == <<"p", "s", "o.ppm">>

MCCommands ==
    {Three, <<"--slice">> \o Three, <<"p", "s", "o.yuv">>, <<"p", "s">>, <<>>,
     <<"--stats", "--trace", "t">> \o Three,
     <<"--trace", "t", "--slice", "--trace", "u">> \o Three,
     <<"--trace", "t", "--trace", "t">> \o Three,
     <<"--trace", "o.ppm">> \o Three,
     <<"--trace", "p">> \o Three, <<"--trace", "s">> \o Three,
     <<"p", "s", "p.ppm">>, <<"--trace", "t", "p", "s">>,
     <<"--trace", "t", "--reading", "scale_line=until-unity">> \o Three,
     <<"--reading", "mux16=68", "--reading", "flat_top=equal",
       "--reading", "mux16=64", "--slice">> \o Three,
     <<"--reading", "very_flat=as-signaled", "--reading", "very_flat=group-qp">>
         \o Three,
     <<"--trace", "t", "--reading", "mux16=67">> \o Three,
     <<"--trace", "t", "--reading", "mux16">> \o Three,
     <<"--trace", "t", "--reading">>, <<"--trace">>, <<"--trace", "t", "--frame">>}

Words == UNION {{a[i] : i \in DOMAIN a} : a \in MCCommands}

MCFiles ==
    {[w \in Words |-> CASE w \in {"p", "p.ppm"} -> p [] w = "s" -> s [] w = "o.ppm" -> o
                        [] w = "u" -> "old" [] OTHER -> "absent"] :
        p \in Pps \cup {"absent", "long"},
        s \in Payload \cup {"absent", "long", "old"}, o \in {"absent", "old"}}
=============================================================================
