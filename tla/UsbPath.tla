------------------------------ MODULE UsbPath ------------------------------
(***************************************************************************)
(* The text of a path, "bus-port-port", as the mapping file and the HTTP   *)
(* interface carry it: here the sequence of the numbers between dashes.  A *)
(* path is a sequence of bytes, the bus and then the port numbers.         *)
(***************************************************************************)
EXTENDS Integers, SequencesExt

USB_PATH_MAX == 8

\* Mutant of convert_path_char: a last element of two digits is cut too.
convert_path_char_cut(path) ==
    [path EXCEPT ![Len(path)] = IF @ >= 10 THEN @ \div 10 ELSE @]

\* usb_helpers_convert_path_char, as far as a reader of the C string gets: an
\* element and its dash are printed into four bytes, the last element into
\* three, and a number that does not fit ends the string.
convert_path_char(path) ==
    LET n == Len(path)
        big == {i \in 1 .. n - 1 : path[i] >= 100}
    IN IF big # {} THEN SubSeq(path, 1, Min(big))
       ELSE [path EXCEPT ![n] = IF @ >= 100 THEN @ \div 10 ELSE @]

\* usb_helpers_convert_char_to_path fails on a path that is too long.
path_fits(text) == Len(text) <= USB_PATH_MAX

convert_char_to_path(text) == [i \in DOMAIN text |-> text[i] % 256]
=============================================================================
