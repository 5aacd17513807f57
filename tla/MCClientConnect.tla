--------------------------- MODULE MCClientConnect ---------------------------
(* Small instances of ClientConnect for TLC. *)
EXTENDS ClientConnect

(* What a connection can be made with; every entry has a timeout or a      *)
(* chroot of its own: said by six digits, rounded, half way between two,   *)
(* cut by the double, rounded to 10 s, too long for an int; missing, or    *)
(* without a slash.  There is no connection for the last schema.           *)
One == [connection_params EXCEPT !.hosts = <<<<"a">>>>]

SomeWanted ==
  { [One EXCEPT !.hosts = <<<<"a">>, <<"b">>>>, !.timeout = 1234560, !.read_only = TRUE],
    [One EXCEPT !.timeout = 1234567, !.chroot = <<"/", "app">>],
    [One EXCEPT !.timeout = 1234565],
    [One EXCEPT !.timeout = 1001],
    [One EXCEPT !.timeout = 1012345678],
    [One EXCEPT !.timeout = 1234567000],
    [One EXCEPT !.chroot = <<>>, !.randomize_hosts = FALSE],
    [One EXCEPT !.chroot = <<"app">>],
    [One EXCEPT !.schema = "fakezk"] }

(* No host, a comma at the end, a key that is not known, a value of the    *)
(* wrong kind, and a key given twice.                                      *)
SomeHandwritten ==
  LET a(query) == [schema |-> "zk", hosts |-> <<<<"a">>>>, path |-> <<"/">>, query |-> query]
  IN  { [a(<<>>) EXCEPT !.hosts = <<<<>>>>],
        [a(<<>>) EXCEPT !.hosts = <<<<"a">>, <<>>>>, !.path = <<>>],
        a(<<[key |-> "tiemout", val |-> Millis(500)]>>),
        a(<<[key |-> "timeout", val |-> [kind |-> "iso8601", ms |-> 0]]>>),
        a(<<[key |-> "timeout", val |-> Millis(500)], [key |-> "timeout", val |-> Millis(700)]>>) }
=============================================================================
