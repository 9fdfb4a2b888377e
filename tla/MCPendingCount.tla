---------------------------- MODULE MCPendingCount ----------------------------
(* PendingCount for TLC.  One library has a series with two copies of its
   first episode and a download nobody has looked at; the other two
   downloads of one series, one of them without its episode list. *)
EXTENDS PendingCount, TLC

MCLists == {{"0", "1"}}
MCAirDate == ("0" :> None @@ "1" :> "out" @@ "01" :> "out" @@ "2" :> None
              @@ "S1" :> "to come" @@ "extra" :> None)
MCParsed == (1 :> "1" @@ 2 :> None @@ 3 :> "1")
Copy(tail) == [NoFile EXCEPT !.anime = 1, !.num = "1",
                             !.name = [title |-> "main", num |-> 1, tail |-> tail]]
Series == [status |-> "identified", aid |-> 1, download |-> FALSE, known |-> TRUE,
           dir |-> "main", list |-> {"1", "01", "S1"}]
Found == [NoAnime EXCEPT !.status = "pending", !.download = TRUE]

Copies == [animes |-> (1 :> Series @@ 2 :> Found),
           files |-> (1 :> Copy(<<>>) @@ 2 :> Copy(<<2>>) @@ 3 :> NoFile),
           order |-> "main", wishes |-> {}]
Fetched == [animes |-> (1 :> [Series EXCEPT !.download = TRUE, !.known = FALSE, !.dir = None]
                     @@ 2 :> [Found EXCEPT !.status = "identified", !.aid = 1]),
            files |-> (1 :> [NoFile EXCEPT !.anime = 1, !.num = "1"] @@ 2 :> NoFile
                       @@ 3 :> [NoFile EXCEPT !.anime = 2, !.num = "1"]),
            order |-> "main", wishes |-> {1}]
MCStarts == {Copies, Fetched}
MCCopies == {Copies}
=============================================================================
