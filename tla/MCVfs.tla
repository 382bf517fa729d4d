------------------------------- MODULE MCVfs -------------------------------
(* Vfs for TLC: the root file system, the file system of modules and one    *)
(* bus driver, as KMain mounts them.                                        *)
EXTENDS Vfs

CONSTANTS c1, c2

Has(driver, class) == [driver |-> driver, class |-> class]

Drivers ==
  "rootfs" :> (<< >> :> Has(None, None) @@ <<"modules">> :> Has("modfs", None)
               @@ <<"system">> :> Has("acpipc", None))
  @@ "modfs" :> (<<"acpipc">> :> Has(None, None))
  @@ "acpipc" :> (<< >> :> Has("acpipc", "bus") @@ <<"isa">> :> Has(None, None))

Mounts == << <<"modules">>, <<"system">> >>

Spelt == {<<"system">>, <<"modules", "..", ".", "system", "isa">>, <<"..", "system">>,
          <<"modules", ".", "acpipc">>}

(* One client is told of devices and opens them, the other makes them known. *)
Roles == c1 :> {<<"OpenFile", <<"modules", "..", ".", "system", "isa">> >>,
                <<"OpenFile", <<"..", "system">> >>}
         @@ c2 :> {<<"RegisterTag", <<"system">> >>, <<"Mount", <<"system">> >>}
Wants == c1 :> {"bus"} @@ c2 :> {}
=============================================================================
