----------------------------- MODULE GpioConfig -----------------------------
(***************************************************************************)
(* The JSON array of GPIO ports, which gpio_handler_parse_json reads from  *)
(* the configuration and gpio_create_mapping_json writes at the end of a   *)
(* probe.  An element is a function from the keys it has to their values;  *)
(* a path is a sequence of bytes, the bus and then the port numbers.  A    *)
(* port is here the record [gpio_path, on_val, off_val, path]; ports with  *)
(* a gpio_num instead of a gpio_path are never written to a mapping.       *)
(***************************************************************************)
EXTENDS UsbPath

CONSTANT NoPin          \* NULL for gpio_path

GPIO_DEFAULT_ON_VAL == 1
GPIO_DEFAULT_OFF_VAL == 0

Keys == {"path", "gpio_path", "on_val", "off_val"}
-----------------------------------------------------------------------------
(* Writing.                                                                *)

\* Mutant of mapping_entry: the values of a custom pin are left out.
mapping_entry_plain(g) ==
    "gpio_path" :> g.gpio_path
    @@ "path" :> <<convert_path_char(g.path)>>

\* The loop body of gpio_create_mapping_json.
mapping_entry(g) ==
    "gpio_path" :> g.gpio_path
    @@ (IF g.on_val # GPIO_DEFAULT_ON_VAL THEN "on_val" :> g.on_val ELSE <<>>)
    @@ (IF g.off_val # GPIO_DEFAULT_OFF_VAL THEN "off_val" :> g.off_val ELSE <<>>)
    @@ "path" :> <<convert_path_char(g.path)>>

\* gpio_create_mapping_json: one object per port of the list.
gpio_create_mapping_json(list) == [i \in DOMAIN list |-> mapping_entry(list[i])]
-----------------------------------------------------------------------------
(* Reading.                                                                *)

\* The variables of gpio_handler_parse_json before its loop.
parse_start == ("path" :> <<>> @@ "gpio_path" :> NoPin
                @@ "on_val" :> GPIO_DEFAULT_ON_VAL @@ "off_val" :> GPIO_DEFAULT_OFF_VAL)

\* The variables after the keys of element i.  They are not reset between
\* elements: a key that an element lacks has the value it had in the last
\* element that has it.
parse_keys(array, i) ==
    [k \in Keys |-> LET has == {j \in 1 .. i : k \in DOMAIN array[j]}
                    IN IF has = {} THEN parse_start[k] ELSE array[Max(has)][k]]

\* An element is accepted when all keys are known and there are a pin, a path
\* and, in gpio_handler_add_port, only paths that are not too long.
accepted(array, i) ==
    LET c == parse_keys(array, i)
    IN /\ DOMAIN array[i] \subseteq Keys
       /\ c.path # <<>> /\ c.gpio_path # NoPin
       /\ \A j \in DOMAIN c.path : path_fits(c.path[j])

\* gpio_handler_add_port_gpio_path: every path makes a port of its own.
added_ports(array, i) ==
    LET c == parse_keys(array, i)
    IN [j \in DOMAIN c.path |->
            [gpio_path |-> c.gpio_path, on_val |-> c.on_val % 256, off_val |-> c.off_val % 256,
             path |-> convert_char_to_path(c.path[j])]]

parse_ok(array) == \A i \in DOMAIN array : accepted(array, i)

\* ctx->port_list after gpio_handler_parse_json has accepted the array.
parsed_list(array) ==
    Reverse(FlattenSeq([i \in DOMAIN array |-> added_ports(array, i)]))
=============================================================================
