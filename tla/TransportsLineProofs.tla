------------------------ MODULE TransportsLineProofs ------------------------
(***************************************************************************)
(* Proof that notify_socket_connected promises Core a transport that       *)
(* works, in every build.  Most of it is about LinuxSerialSocket and       *)
(* LinuxTelnetSocket, which keep their promise at the end of a script of   *)
(* lines to and from the bridge: what is left of the script has one of     *)
(* three shapes (LineShape), and what the promise needs has been read or   *)
(* is still to be read before its last step (LineReady).                   *)
(***************************************************************************)
EXTENDS TransportsProofs, SequenceTheorems

-----------------------------------------------------------------------------
(* The scripts and the lines of LinuxSerialSocket and LinuxTelnetSocket *)

\* What a line may say, and what a step of a script may be.
Arguments ==
    {"", "IDLE", "64", "20", "0", Serial!NA, Serial!Bad, Serial!Short, Serial!Zero, Serial!NoData,
     "SEND_STATUS", "SEND_OWN_ADDRESS", "SEND_BROADCAST_ADDRESS", "SEND_MAXIMUM_MESSAGE_LENGTH",
     "SEND_SERIAL_BUFFER_SIZE", "SEND_ADDRESS", "SEND_DATA", "AWAIT_ADDRESS", "AWAIT_DATA", "SENDING"}
    \cup Addresses \cup {m[1] : m \in Radio} \cup {m[2] : m \in Radio}
ConfigFields ==
    {"STATUS", "OWN_ADDRESS", "BROADCAST_ADDRESS", "MAXIMUM_MESSAGE_LENGTH", "SERIAL_BUFFER_SIZE"}
MessageFields == {"ADDRESS", "DATA"}
Keywords == {"OK", "?", "RESET", "CONFIGURATION", "SEND", "RECEIVE"} \cup ConfigFields \cup MessageFields

\* What should be an address is one, or one of the things the parser refuses or replaces.
AddressFields == {"OWN_ADDRESS", "BROADCAST_ADDRESS", "ADDRESS"}
Lines ==
    ((Keywords \ AddressFields) \X Arguments)
    \cup ({"OWN_ADDRESS"} \X (Addresses \cup {Serial!NA, Serial!Bad, Serial!Short}))
    \cup ({"BROADCAST_ADDRESS"} \X (Addresses \cup {Serial!NA, Serial!Bad}))
    \cup ({"ADDRESS"} \X (Addresses \cup {Serial!Zero, Serial!Bad}))

PlainCommands   == ({"write"} \X Keywords \X Arguments) \cup ({"wait"} \X {"OK"} \X Arguments)
ConfigCommands  == PlainCommands \cup ({"read"} \X ConfigFields)
MessageCommands == PlainCommands \cup ({"read"} \X MessageFields) \cup {<<"receiveData">>}
EndCommands     == {<<"notify">>, <<"close">>}
Commands        == ConfigCommands \cup MessageCommands \cup EndCommands

\* What the steps of a script begin with tells them apart.
LEMMA CommandKinds ==
  /\ \A c \in PlainCommands : c[1] \in {"write", "wait"}
  /\ \A c \in ConfigCommands : /\ c[1] \in {"write", "wait", "read"}
                               /\ c[1] = "read" => c[2] \in ConfigFields
  /\ \A c \in MessageCommands : /\ c[1] \in {"write", "wait", "read", "receiveData"}
                                /\ c[1] = "read" => c[2] \in MessageFields
  /\ \A c \in EndCommands : c[1] \in {"notify", "close"}
<1>1. \A c \in PlainCommands : c[1] \in {"write", "wait"}
  BY DEF PlainCommands
<1>2. \A c \in {"read"} \X ConfigFields : c[1] = "read" /\ c[2] \in ConfigFields
  OBVIOUS
<1>3. \A c \in {"read"} \X MessageFields : c[1] = "read" /\ c[2] \in MessageFields
  OBVIOUS
<1>4. \A c \in {<<"receiveData">>} : c[1] = "receiveData"
  OBVIOUS
<1>5. \A c \in EndCommands : c[1] \in {"notify", "close"}
  BY DEF EndCommands
<1>6. \A c \in ConfigCommands : /\ c[1] \in {"write", "wait", "read"}
                                /\ c[1] = "read" => c[2] \in ConfigFields
  BY <1>1, <1>2 DEF ConfigCommands
<1>7. \A c \in MessageCommands : /\ c[1] \in {"write", "wait", "read", "receiveData"}
                                 /\ c[1] = "read" => c[2] \in MessageFields
  BY <1>1, <1>3, <1>4 DEF MessageCommands
<1> QED  BY <1>1, <1>5, <1>6, <1>7

\* Write, waitFor and Read make steps of scripts.
LEMMA CommandTypes ==
  /\ \A k \in Keywords, a \in Arguments : Serial!Write(<<k, a>>) \in PlainCommands
  /\ \A a \in Arguments : Serial!waitFor(a) \in PlainCommands
  /\ \A w \in ConfigFields : Serial!Read(w) \in ConfigCommands /\ Serial!Read(w) = <<"read", w>>
  /\ \A w \in MessageFields : Serial!Read(w) \in MessageCommands
<1>1. ASSUME NEW k \in Keywords, NEW a \in Arguments PROVE Serial!Write(<<k, a>>) \in PlainCommands
  BY DEF Serial!Write, PlainCommands
<1>2. ASSUME NEW a \in Arguments PROVE Serial!waitFor(a) \in PlainCommands
  BY DEF Serial!waitFor, PlainCommands
<1>3. ASSUME NEW w \in ConfigFields PROVE Serial!Read(w) \in ConfigCommands /\ Serial!Read(w) = <<"read", w>>
  BY DEF Serial!Read, ConfigCommands
<1>4. ASSUME NEW w \in MessageFields PROVE Serial!Read(w) \in MessageCommands
  BY DEF Serial!Read, MessageCommands
<1> QED  BY <1>1, <1>2, <1>3, <1>4

\* The steps of updateConfiguration, by place.
LEMMA ConfigurationScript ==
  LET s == Serial!updateConfiguration
  IN  /\ s \in Seq(ConfigCommands) /\ Len(s) = 12
      /\ s[5] = <<"read", "OWN_ADDRESS">> /\ s[9] = <<"read", "MAXIMUM_MESSAGE_LENGTH">>
<1>k. /\ {"CONFIGURATION"} \subseteq Keywords
      /\ {"", "SEND_STATUS", "SEND_OWN_ADDRESS", "SEND_BROADCAST_ADDRESS", "SEND_MAXIMUM_MESSAGE_LENGTH",
          "SEND_SERIAL_BUFFER_SIZE", "IDLE"} \subseteq Arguments
      /\ PlainCommands \subseteq ConfigCommands
  BY DEF Keywords, Arguments, ConfigCommands
<1>1. Serial!Write(<<"CONFIGURATION", "">>) \in ConfigCommands
  BY <1>k, CommandTypes
<1>2. /\ Serial!waitFor("SEND_STATUS") \in ConfigCommands
      /\ Serial!waitFor("SEND_OWN_ADDRESS") \in ConfigCommands
      /\ Serial!waitFor("SEND_BROADCAST_ADDRESS") \in ConfigCommands
      /\ Serial!waitFor("SEND_MAXIMUM_MESSAGE_LENGTH") \in ConfigCommands
      /\ Serial!waitFor("SEND_SERIAL_BUFFER_SIZE") \in ConfigCommands
      /\ Serial!waitForOKIdle \in ConfigCommands
  BY <1>k, CommandTypes DEF Serial!waitForOKIdle
<1>3. /\ Serial!Read("STATUS") \in ConfigCommands
      /\ Serial!Read("OWN_ADDRESS") \in ConfigCommands
      /\ Serial!Read("BROADCAST_ADDRESS") \in ConfigCommands
      /\ Serial!Read("MAXIMUM_MESSAGE_LENGTH") \in ConfigCommands
      /\ Serial!Read("SERIAL_BUFFER_SIZE") \in ConfigCommands
      /\ Serial!Read("OWN_ADDRESS") = <<"read", "OWN_ADDRESS">>
      /\ Serial!Read("MAXIMUM_MESSAGE_LENGTH") = <<"read", "MAXIMUM_MESSAGE_LENGTH">>
  BY CommandTypes DEF ConfigFields
<1>4. ASSUME NEW a \in ConfigCommands, NEW b \in ConfigCommands, NEW c \in ConfigCommands,
             NEW d \in ConfigCommands, NEW e \in ConfigCommands, NEW f \in ConfigCommands,
             NEW g \in ConfigCommands, NEW h \in ConfigCommands, NEW i \in ConfigCommands,
             NEW j \in ConfigCommands, NEW k \in ConfigCommands, NEW l \in ConfigCommands
      PROVE  /\ <<a, b, c, d, e, f, g, h, i, j, k, l>> \in Seq(ConfigCommands)
             /\ Len(<<a, b, c, d, e, f, g, h, i, j, k, l>>) = 12
             /\ <<a, b, c, d, e, f, g, h, i, j, k, l>>[5] = e
             /\ <<a, b, c, d, e, f, g, h, i, j, k, l>>[9] = i
  OBVIOUS
<1> QED  BY <1>1, <1>2, <1>3, <1>4 DEF Serial!updateConfiguration

\* The steps of resetController.
LEMMA ResetScript == Serial!resetController \in Seq(ConfigCommands) /\ Len(Serial!resetController) = 2
<1>1. Serial!Write(<<"RESET", "">>) \in ConfigCommands /\ Serial!waitForOKIdle \in ConfigCommands
  <2>1. "RESET" \in Keywords /\ "" \in Arguments /\ "IDLE" \in Arguments /\ PlainCommands \subseteq ConfigCommands
    BY DEF Keywords, Arguments, ConfigCommands
  <2> QED  BY <2>1, CommandTypes DEF Serial!waitForOKIdle
<1>2. ASSUME NEW a \in ConfigCommands, NEW b \in ConfigCommands
      PROVE  <<a, b>> \in Seq(ConfigCommands) /\ Len(<<a, b>>) = 2
  OBVIOUS
<1> QED  BY <1>1, <1>2 DEF Serial!resetController

\* The steps of send and loop.
LEMMA MessageScripts ==
  /\ Serial!LoopScript \in Seq(MessageCommands)
  /\ \A a \in Addresses, m \in Radio : Serial!SendScript(a, m[2]) \in Seq(MessageCommands)
<1>k. /\ {"RECEIVE", "SEND", "ADDRESS", "DATA"} \subseteq Keywords
      /\ {"", "SEND_ADDRESS", "SEND_DATA", "AWAIT_ADDRESS", "AWAIT_DATA", "SENDING", "IDLE"} \subseteq Arguments
      /\ Addresses \subseteq Arguments /\ \A m \in Radio : m[2] \in Arguments
      /\ PlainCommands \subseteq MessageCommands /\ <<"receiveData">> \in MessageCommands
  BY DEF Keywords, Arguments, MessageFields, MessageCommands
<1>1. /\ Serial!Write(<<"RECEIVE", "">>) \in MessageCommands
      /\ Serial!Write(<<"SEND", "">>) \in MessageCommands
      /\ \A a \in Addresses : Serial!Write(<<"ADDRESS", a>>) \in MessageCommands
      /\ \A m \in Radio : Serial!Write(<<"DATA", m[2]>>) \in MessageCommands
  BY <1>k, CommandTypes
<1>2. /\ Serial!waitFor("SEND_ADDRESS") \in MessageCommands /\ Serial!waitFor("SEND_DATA") \in MessageCommands
      /\ Serial!waitFor("AWAIT_ADDRESS") \in MessageCommands /\ Serial!waitFor("AWAIT_DATA") \in MessageCommands
      /\ Serial!waitFor("SENDING") \in MessageCommands /\ Serial!waitForOKIdle \in MessageCommands
  BY <1>k, CommandTypes DEF Serial!waitForOKIdle
<1>3. Serial!Read("ADDRESS") \in MessageCommands /\ Serial!Read("DATA") \in MessageCommands
  BY CommandTypes DEF MessageFields
<1>4. ASSUME NEW a \in MessageCommands, NEW b \in MessageCommands, NEW c \in MessageCommands,
             NEW d \in MessageCommands, NEW e \in MessageCommands, NEW f \in MessageCommands,
             NEW g \in MessageCommands
      PROVE  <<a, b, c, d, e, f, g>> \in Seq(MessageCommands)
  OBVIOUS
<1>5. Serial!LoopScript \in Seq(MessageCommands)
  BY <1>1, <1>2, <1>3, <1>4, <1>k DEF Serial!LoopScript
<1>6. ASSUME NEW a \in Addresses, NEW m \in Radio PROVE Serial!SendScript(a, m[2]) \in Seq(MessageCommands)
  BY <1>1, <1>2, <1>4 DEF Serial!SendScript
<1> QED  BY <1>5, <1>6

\* A script with one more step at its end.
LEMMA ScriptEnds ==
  ASSUME NEW S, NEW u \in Seq(S), NEW e, NEW T, S \subseteq T, e \in T
  PROVE  /\ Append(u, e) \in Seq(T)
         /\ \A i \in 1..Len(Append(u, e)) :
               Append(u, e)[i] \in S \/ (i = Len(Append(u, e)) /\ Append(u, e)[i] = e)
         /\ \A i \in 1..Len(u) : i \in 1..Len(Append(u, e)) /\ Append(u, e)[i] = u[i]
<1>1. u \in Seq(T)
  OBVIOUS
<1>2. /\ Append(u, e) \in Seq(T) /\ Len(Append(u, e)) = Len(u) + 1 /\ Len(u) \in Nat
      /\ \A i \in 1..Len(u) : Append(u, e)[i] = u[i]
      /\ Append(u, e)[Len(u) + 1] = e
  BY <1>1, QueueAppend
<1>3. \A i \in 1..Len(u) : u[i] \in S
  OBVIOUS
<1> QED  BY <1>2, <1>3

\* resetController and updateConfiguration, one after the other.
LEMMA ResetConfigurationScript ==
  LET s == Serial!resetController \o Serial!updateConfiguration
  IN  /\ s \in Seq(ConfigCommands) /\ Len(s) = 14
      /\ s[7] = <<"read", "OWN_ADDRESS">> /\ s[11] = <<"read", "MAXIMUM_MESSAGE_LENGTH">>
<1>1. ASSUME NEW S, NEW r \in Seq(S), NEW u \in Seq(S), Len(r) = 2, Len(u) = 12
      PROVE  /\ r \o u \in Seq(S) /\ Len(r \o u) = 14
             /\ (r \o u)[7] = u[5] /\ (r \o u)[11] = u[9]
  <2> DEFINE s == r \o u
  <2>1. /\ s \in Seq(S) /\ Len(s) = Len(r) + Len(u)
        /\ \A i \in 1..(Len(r) + Len(u)) : s[i] = IF i <= Len(r) THEN r[i] ELSE u[i - Len(r)]
    BY ConcatProperties
  <2> HIDE DEF s
  <2>2. 7 \in 1..(Len(r) + Len(u)) /\ 11 \in 1..(Len(r) + Len(u)) /\ ~(7 <= Len(r)) /\ ~(11 <= Len(r))
    BY <1>1
  <2>3. s[7] = u[7 - Len(r)] /\ s[11] = u[11 - Len(r)]
    BY <2>1, <2>2
  <2>4. 7 - Len(r) = 5 /\ 11 - Len(r) = 9 /\ Len(r) + Len(u) = 14
    BY <1>1
  <2>5. s \in Seq(S) /\ Len(s) = 14 /\ s[7] = u[5] /\ s[11] = u[9]
    BY <2>1, <2>3, <2>4
  <2> QED  BY <2>5 DEF s
<1> QED  BY <1>1, ConfigurationScript, ResetScript

\* The script of begin() and of getMaximumMessageLength: steps of the configuration, with
\* those that ask for the own address and the maximum length, and the end.
Configures(s, last) ==
    /\ s \in Seq(Commands)
    /\ \A i \in 1..Len(s) : s[i] \in ConfigCommands \/ (i = Len(s) /\ s[i] = last)
    /\ \E i \in 1..Len(s) : s[i] = <<"read", "OWN_ADDRESS">>
    /\ \E i \in 1..Len(s) : s[i] = <<"read", "MAXIMUM_MESSAGE_LENGTH">>

\* begin() runs updateConfiguration, with or without resetController, up to its last step.
LEMMA BeginScript ==
  ASSUME NEW last \in EndCommands,
         NEW u \in {Serial!updateConfiguration, Serial!resetController \o Serial!updateConfiguration},
         NEW s, s = Append(u, last)
  PROVE  Configures(s, last)
<1>c. ConfigCommands \subseteq Commands /\ last \in Commands
  BY DEF Commands
<1>u. u \in Seq(ConfigCommands)
  BY ConfigurationScript, ResetConfigurationScript
<1>1. /\ s \in Seq(Commands)
      /\ \A i \in 1..Len(s) : s[i] \in ConfigCommands \/ (i = Len(s) /\ s[i] = last)
      /\ \A i \in 1..Len(u) : i \in 1..Len(s) /\ s[i] = u[i]
  BY <1>c, <1>u, ScriptEnds
<1>2. CASE u = Serial!updateConfiguration
  <2>1. 5 \in 1..Len(u) /\ 9 \in 1..Len(u)
    BY <1>2, ConfigurationScript
  <2>2. u[5] = <<"read", "OWN_ADDRESS">> /\ u[9] = <<"read", "MAXIMUM_MESSAGE_LENGTH">>
    BY <1>2, ConfigurationScript
  <2> QED  BY <1>1, <2>1, <2>2 DEF Configures
<1>3. CASE u = Serial!resetController \o Serial!updateConfiguration
  <2>1. 7 \in 1..Len(u) /\ 11 \in 1..Len(u)
    BY <1>3, ResetConfigurationScript
  <2>2. u[7] = <<"read", "OWN_ADDRESS">> /\ u[11] = <<"read", "MAXIMUM_MESSAGE_LENGTH">>
    BY <1>3, ResetConfigurationScript
  <2> QED  BY <1>1, <2>1, <2>2 DEF Configures
<1> QED  BY <1>2, <1>3

\* The answers of the bridge are lines, whatever it is asked.
LEMMA AnswerLines == \A l : \A a \in Serial!Answers(l) : a.lines \in Seq(Lines)
<1> SUFFICES ASSUME NEW l, NEW a \in Serial!Answers(l) PROVE a.lines \in Seq(Lines)
  OBVIOUS
<1>k. /\ \A w \in Arguments : Serial!OK(w) \in Lines
      /\ \A k \in Keywords \ AddressFields, w \in Arguments : Serial!Says(k, w) \in Lines
      /\ \A w \in Addresses \cup {Serial!NA, Serial!Short} : Serial!Says("OWN_ADDRESS", w) \in Lines
      /\ \A w \in Addresses \cup {Serial!NA} : Serial!Says("BROADCAST_ADDRESS", w) \in Lines
      /\ \A w \in Addresses \cup {Serial!Zero} : Serial!Says("ADDRESS", w) \in Lines
  BY DEF Serial!OK, Serial!Says, Lines, Keywords, AddressFields
<1>1. CASE l[1] = "RESET"
  <2>1. a = [lines |-> <<Serial!OK("IDLE")>>, state |-> "idle"]
    BY <1>1 DEF Serial!Answers
  <2>2. Serial!OK("IDLE") \in Lines
    BY <1>k DEF Arguments
  <2> QED  BY <2>1, <2>2
<1>2. CASE bridge = "idle" /\ l[1] = "CONFIGURATION"
  <2>1. PICK own \in Addresses \cup {Serial!NA, Serial!Short}, broadcast \in Addresses \cup {Serial!NA},
             length \in {"20", "0", Serial!Bad} :
             a = [lines |-> Serial!Configuration(own, broadcast, length), state |-> "idle"]
    BY <1>2 DEF Serial!Answers
  <2>2. /\ Serial!OK("SEND_STATUS") \in Lines /\ Serial!OK("SEND_OWN_ADDRESS") \in Lines
        /\ Serial!OK("SEND_BROADCAST_ADDRESS") \in Lines /\ Serial!OK("SEND_MAXIMUM_MESSAGE_LENGTH") \in Lines
        /\ Serial!OK("SEND_SERIAL_BUFFER_SIZE") \in Lines /\ Serial!OK("IDLE") \in Lines
    BY <1>k DEF Arguments
  <2>3. length \in Arguments /\ "IDLE" \in Arguments /\ "64" \in Arguments
    BY DEF Arguments
  <2>4. {"STATUS", "MAXIMUM_MESSAGE_LENGTH", "SERIAL_BUFFER_SIZE"} \subseteq Keywords \ AddressFields
    BY DEF Keywords, ConfigFields, AddressFields
  <2>5. /\ Serial!Says("STATUS", "IDLE") \in Lines /\ Serial!Says("OWN_ADDRESS", own) \in Lines
        /\ Serial!Says("BROADCAST_ADDRESS", broadcast) \in Lines
        /\ Serial!Says("MAXIMUM_MESSAGE_LENGTH", length) \in Lines
        /\ Serial!Says("SERIAL_BUFFER_SIZE", "64") \in Lines
    BY <1>k, <2>3, <2>4
  <2>6. ASSUME NEW b \in Lines, NEW c \in Lines, NEW d \in Lines, NEW e \in Lines, NEW f \in Lines,
               NEW g \in Lines, NEW h \in Lines, NEW i \in Lines, NEW j \in Lines, NEW k \in Lines,
               NEW m \in Lines
        PROVE  <<b, c, d, e, f, g, h, i, j, k, m>> \in Seq(Lines)
    OBVIOUS
  <2>7. Serial!Configuration(own, broadcast, length) \in Seq(Lines)
    BY <2>2, <2>5, <2>6 DEF Serial!Configuration
  <2> QED  BY <2>1, <2>7
<1>3. CASE bridge = "idle" /\ l[1] = "SEND"
  <2>1. a = [lines |-> <<Serial!OK("AWAIT_ADDRESS")>>, state |-> "await_address"]
    BY <1>3 DEF Serial!Answers
  <2>2. Serial!OK("AWAIT_ADDRESS") \in Lines
    BY <1>k DEF Arguments
  <2> QED  BY <2>1, <2>2
<1>4. CASE bridge = "idle" /\ l[1] = "RECEIVE"
  <2>1. PICK m \in Radio \cup {<<Serial!Zero, Serial!NoData>>} :
             a = [lines |-> Serial!Received(m[1], m[2]), state |-> "idle"]
    BY <1>4 DEF Serial!Answers
  <2>2. m[1] \in Addresses \cup {Serial!Zero} /\ m[2] \in Arguments /\ "DATA" \in Keywords \ AddressFields
    <3>1. m \in Radio => m[1] \in Addresses /\ m[2] \in Arguments
      BY ConstantsAssumption DEF Arguments, Serial!ConstantsOK
    <3>2. m = <<Serial!Zero, Serial!NoData>> => m[1] = Serial!Zero /\ m[2] \in Arguments
      BY DEF Arguments
    <3> QED  BY <3>1, <3>2 DEF Keywords, MessageFields, AddressFields
  <2>3. Serial!OK("SEND_ADDRESS") \in Lines /\ Serial!OK("SEND_DATA") \in Lines /\ Serial!OK("IDLE") \in Lines
    BY <1>k DEF Arguments
  <2>4. Serial!Says("ADDRESS", m[1]) \in Lines /\ Serial!Says("DATA", m[2]) \in Lines
    BY <1>k, <2>2
  <2>5. ASSUME NEW b \in Lines, NEW c \in Lines, NEW d \in Lines, NEW e \in Lines, NEW f \in Lines
        PROVE  <<b, c, d, e, f>> \in Seq(Lines)
    OBVIOUS
  <2>6. Serial!Received(m[1], m[2]) \in Seq(Lines)
    BY <2>3, <2>4, <2>5 DEF Serial!Received
  <2> QED  BY <2>1, <2>6
<1>5. CASE bridge = "await_address" /\ l[1] = "ADDRESS"
  <2>1. a = [lines |-> <<Serial!OK("AWAIT_DATA")>>, state |-> "await_data"]
    BY <1>5 DEF Serial!Answers
  <2>2. Serial!OK("AWAIT_DATA") \in Lines
    BY <1>k DEF Arguments
  <2> QED  BY <2>1, <2>2
<1>6. CASE bridge = "await_data" /\ l[1] = "DATA"
  <2>1. a = [lines |-> <<Serial!OK("SENDING"), Serial!OK("IDLE")>>, state |-> "idle"]
    BY <1>6 DEF Serial!Answers
  <2>2. Serial!OK("SENDING") \in Lines /\ Serial!OK("IDLE") \in Lines
    BY <1>k DEF Arguments
  <2> QED  BY <2>1, <2>2
<1>7. CASE /\ l[1] # "RESET"
           /\ ~(bridge = "idle" /\ l[1] = "CONFIGURATION") /\ ~(bridge = "idle" /\ l[1] = "SEND")
           /\ ~(bridge = "idle" /\ l[1] = "RECEIVE") /\ ~(bridge = "await_address" /\ l[1] = "ADDRESS")
           /\ ~(bridge = "await_data" /\ l[1] = "DATA")
  <2>1. a = [lines |-> <<>>, state |-> bridge]
    BY <1>7 DEF Serial!Answers
  <2> QED  BY <2>1
<1> QED  BY <1>1, <1>2, <1>3, <1>4, <1>5, <1>6, <1>7

\* A line that is lost or garbled leaves lines.
LEMMA FaultyLines ==
  ASSUME toGateway \in Seq(Lines), NEW i \in DOMAIN toGateway
  PROVE  /\ Serial!RemoveAt(toGateway, i) \in Seq(Lines)
         /\ [toGateway EXCEPT ![i] = <<"?", Serial!Bad>>] \in Seq(Lines)
         /\ [toGateway EXCEPT ![i] = <<@[1], Serial!Bad>>] \in Seq(Lines)
<1>d. i \in 1..Len(toGateway) /\ Len(toGateway) \in Nat /\ toGateway[i] \in Lines
      /\ \A j \in 1..Len(toGateway) : toGateway[j] \in Lines
  OBVIOUS
<1>b. Serial!Bad \in Arguments
  BY DEF Arguments
<1>1. <<"?", Serial!Bad>> \in Lines
  BY <1>b DEF Lines, Keywords, ConfigFields, MessageFields, AddressFields
<1>2. <<toGateway[i][1], Serial!Bad>> \in Lines
  BY <1>b, <1>d DEF Lines
<1>3. SubSeq(toGateway, 1, i - 1) \in Seq(Lines)
  <2>1. \A j \in 1..(i - 1) : toGateway[j] \in Lines
    BY <1>d
  <2> QED  BY <2>1, <1>d, SubSeqProperties
<1>4. SubSeq(toGateway, i + 1, Len(toGateway)) \in Seq(Lines)
  <2>1. \A j \in (i + 1)..Len(toGateway) : toGateway[j] \in Lines
    BY <1>d
  <2> QED  BY <2>1, <1>d, SubSeqProperties
<1>5. Serial!RemoveAt(toGateway, i) \in Seq(Lines)
  BY <1>3, <1>4 DEF Serial!RemoveAt
<1>6. [toGateway EXCEPT ![i] = <<"?", Serial!Bad>>] \in Seq(Lines)
  BY <1>1, <1>d, ExceptSeq
<1>7. [toGateway EXCEPT ![i] = <<@[1], Serial!Bad>>] \in Seq(Lines)
  BY <1>2, <1>d, ExceptSeq
<1> QED  BY <1>5, <1>6, <1>7

\* LinuxTelnetSocket repeats the scripts, the parsers and the steps of LinuxSerialSocket.
LEMMA SameScripts ==
  /\ Telnet!updateConfiguration = Serial!updateConfiguration
  /\ Telnet!Serial!LoopScript = Serial!LoopScript
  /\ \A a, b : Telnet!Serial!SendScript(a, b) = Serial!SendScript(a, b)
<1>1. /\ \A l : Telnet!Serial!Write(l) = Serial!Write(l)
      /\ \A w : Telnet!Serial!waitFor(w) = Serial!waitFor(w)
      /\ \A w : Telnet!Serial!Read(w) = Serial!Read(w)
      /\ Telnet!Serial!waitForOKIdle = Serial!waitForOKIdle
  BY DEF Telnet!Serial!Write, Serial!Write, Telnet!Serial!waitFor, Serial!waitFor, Telnet!Serial!Read, Serial!Read,
         Telnet!Serial!waitForOKIdle, Serial!waitForOKIdle
<1>2. Telnet!updateConfiguration = Serial!updateConfiguration
  BY <1>1 DEF Telnet!updateConfiguration, Telnet!Serial!updateConfiguration, Serial!updateConfiguration
<1>3. Telnet!Serial!LoopScript = Serial!LoopScript
  BY <1>1 DEF Telnet!Serial!LoopScript, Serial!LoopScript
<1>4. \A a, b : Telnet!Serial!SendScript(a, b) = Serial!SendScript(a, b)
  BY <1>1 DEF Telnet!Serial!SendScript, Serial!SendScript
<1> QED  BY <1>2, <1>3, <1>4

\* The bridge of LinuxTelnetSocket answers as the one of LinuxSerialSocket does.
LEMMA SameLines ==
  /\ Telnet!Serial!Zero = Serial!Zero /\ Telnet!Serial!Bad = Serial!Bad
  /\ \A l : Telnet!Serial!Answers(l) = Serial!Answers(l)
<1>1. /\ Telnet!Serial!Zero = Serial!Zero /\ Telnet!Serial!Bad = Serial!Bad /\ Telnet!Serial!NA = Serial!NA
      /\ Telnet!Serial!Short = Serial!Short /\ Telnet!Serial!NoData = Serial!NoData
      /\ \A k, w : Telnet!Serial!Says(k, w) = Serial!Says(k, w)
      /\ \A w : Telnet!Serial!OK(w) = Serial!OK(w)
  BY DEF Telnet!Serial!Zero, Serial!Zero, Telnet!Serial!Bad, Serial!Bad, Telnet!Serial!NA, Serial!NA,
         Telnet!Serial!Short, Serial!Short, Telnet!Serial!NoData, Serial!NoData,
         Telnet!Serial!Says, Serial!Says, Telnet!Serial!OK, Serial!OK
<1>2. \A o, b, n : Telnet!Serial!Configuration(o, b, n) = Serial!Configuration(o, b, n)
  BY <1>1 DEF Telnet!Serial!Configuration, Serial!Configuration
<1>3. \A a, d : Telnet!Serial!Received(a, d) = Serial!Received(a, d)
  BY <1>1 DEF Telnet!Serial!Received, Serial!Received
<1>4. \A l : Telnet!Serial!Answers(l) = Serial!Answers(l)
  BY DEF Telnet!Serial!Answers, Serial!Answers, Telnet!Serial!Configuration, Serial!Configuration,
         Telnet!Serial!Received, Serial!Received, Telnet!Serial!Zero, Serial!Zero, Telnet!Serial!Bad, Serial!Bad,
         Telnet!Serial!NA, Serial!NA, Telnet!Serial!Short, Serial!Short, Telnet!Serial!NoData, Serial!NoData,
         Telnet!Serial!Says, Serial!Says, Telnet!Serial!OK, Serial!OK
<1> QED  BY <1>1, <1>4

\* LinuxTelnetSocket parses a line as LinuxSerialSocket does.
LEMMA SameReads ==
  /\ \A w, l : Telnet!Serial!ReadParts(w, l) <=> Serial!ReadParts(w, l)
  /\ \A w, l : Telnet!Serial!ReadOK(w, l) <=> Serial!ReadOK(w, l)
  /\ \A w, l : Telnet!Serial!ReadMessage(w, l) <=> Serial!ReadMessage(w, l)
<1>1. \A w, l : Telnet!Serial!ReadParts(w, l) <=> Serial!ReadParts(w, l)
  BY DEF Telnet!Serial!ReadParts, Serial!ReadParts, Telnet!Serial!readOwnAddress, Serial!readOwnAddress,
     Telnet!Serial!readBroadcastAddress, Serial!readBroadcastAddress, Telnet!Serial!readMaximumMessageLength, Serial!readMaximumMessageLength,
     Telnet!Serial!Parsed, Serial!Parsed, Telnet!Serial!Zero, Serial!Zero, Telnet!Serial!Bad, Serial!Bad, Telnet!Serial!NA, Serial!NA,
         Telnet!Serial!Short, Serial!Short
<1>2. \A w, l : Telnet!Serial!ReadOK(w, l) <=> Serial!ReadOK(w, l)
  BY DEF Telnet!Serial!ReadOK, Serial!ReadOK, Telnet!Serial!readOwnAddress, Serial!readOwnAddress,
     Telnet!Serial!readBroadcastAddress, Serial!readBroadcastAddress, Telnet!Serial!readMaximumMessageLength, Serial!readMaximumMessageLength,
     Telnet!Serial!readStatus, Serial!readStatus, Telnet!Serial!readSerialBufferSize, Serial!readSerialBufferSize,
     Telnet!Serial!Parsed, Serial!Parsed, Telnet!Serial!Zero, Serial!Zero, Telnet!Serial!Bad, Serial!Bad, Telnet!Serial!NA, Serial!NA,
         Telnet!Serial!Short, Serial!Short
<1>3. \A w, l : Telnet!Serial!ReadMessage(w, l) <=> Serial!ReadMessage(w, l)
  BY DEF Telnet!Serial!ReadMessage, Serial!ReadMessage, Telnet!Serial!readSendAddress, Serial!readSendAddress,
     Telnet!Serial!readData, Serial!readData, Telnet!Serial!Returns, Serial!Returns, Telnet!Serial!config, Serial!config,
     Telnet!Serial!Zero, Serial!Zero, Telnet!Serial!Bad, Serial!Bad, Telnet!Serial!NoData, Serial!NoData, Telnet!Serial!Short, Serial!Short
<1> QED  BY <1>1, <1>2, <1>3

\* What the first word of a step says of the rest.
LEMMA CommandForms ==
  \A c \in Commands :
     /\ c[1] \in {"write", "wait", "read", "receiveData", "notify", "close"}
     /\ c[1] = "notify" => c = <<"notify">>
     /\ c[1] = "close" => c = <<"close">>
     /\ c[1] = "read" => c[2] \in ConfigFields \cup MessageFields /\ c = <<"read", c[2]>>
<1> SUFFICES ASSUME NEW c \in Commands
             PROVE  /\ c[1] \in {"write", "wait", "read", "receiveData", "notify", "close"}
                    /\ c[1] = "notify" => c = <<"notify">>
                    /\ c[1] = "close" => c = <<"close">>
                    /\ c[1] = "read" => c[2] \in ConfigFields \cup MessageFields /\ c = <<"read", c[2]>>
  OBVIOUS
<1>1. CASE c \in PlainCommands
  BY <1>1, CommandKinds
<1>2. CASE c \in {"read"} \X (ConfigFields \cup MessageFields)
  BY <1>2
<1>3. CASE c = <<"receiveData">>
  BY <1>3
<1>4. CASE c = <<"notify">>
  BY <1>4
<1>5. CASE c = <<"close">>
  BY <1>5
<1> QED
  <2>1. \/ c \in PlainCommands \/ c \in {"read"} \X ConfigFields \/ c \in {"read"} \X MessageFields
        \/ c = <<"receiveData">> \/ c = <<"notify">> \/ c = <<"close">>
    BY DEF Commands, ConfigCommands, MessageCommands, EndCommands
  <2>2. c \in {"read"} \X ConfigFields \/ c \in {"read"} \X MessageFields => c \in {"read"} \X (ConfigFields \cup MessageFields)
    OBVIOUS
  <2> QED  BY <1>1, <1>2, <1>3, <1>4, <1>5, <2>1, <2>2

\* Which steps a script may have before and after the socket is connected; a script
\* that has steps left has an open line.
LineShape ==
    /\ toGateway \in Seq(Lines) /\ script \in Seq(Commands)
    /\ gateway = "starting" => \A i \in 1..Len(script) :
          script[i] \in ConfigCommands \/ (i = Len(script) /\ script[i] \in EndCommands)
    /\ gateway # "starting" => \A i \in 1..Len(script) : script[i] \in MessageCommands
    /\ script # <<>> => fd
    /\ gateway = "running" => fd

\* Is a read of this part of the configuration still to come?
Asks(what) == \E i \in 1..Len(script) : script[i] = <<"read", what>>

\* What notify_socket_connected promises has been read, or is read before it is reached.
LineReady ==
    /\ core = "connected" => gateway # "starting" /\ fd /\ ownAddress \in Addresses
    /\ (\E i \in 1..Len(script) : script[i] = <<"notify">>) =>
          ownAddress \in Addresses \/ Asks("OWN_ADDRESS")

LineInv == build \in {"serial", "telnet"} => LineShape /\ LineReady

\* What a step of the line does to the script and to what has been read.
LineStays ==
    /\ toGateway' \in Seq(Lines)
    /\ UNCHANGED <<gateway, core, fd, script, ownAddress>>
LineGoesOn ==
    /\ script # <<>> /\ script' = Tail(script) /\ toGateway' \in Seq(Lines)
    /\ Head(script)[1] = "read" => Head(script)[2] \in MessageFields
    /\ UNCHANGED <<gateway, core, fd, ownAddress>>
LineReads(what) ==
    /\ script # <<>> /\ script' = Tail(script) /\ toGateway' \in Seq(Lines)
    /\ Head(script)[1] = "read" /\ Head(script)[2] = what
    /\ IF what = "OWN_ADDRESS" THEN ownAddress' \in Addresses ELSE UNCHANGED ownAddress
    /\ UNCHANGED <<gateway, core, fd>>
LineEnds ==
    /\ script' = <<>> /\ toGateway' \in Seq(Lines)
    /\ gateway' \in {gateway, "failed", "killed"}
    /\ gateway = "starting" \/ UNCHANGED ownAddress
    /\ UNCHANGED <<core, fd>>
LineOpens ==
    /\ gateway = "starting" /\ toGateway' \in Seq(Lines) /\ fd'
    /\ \E last \in EndCommands :
          \E u \in {Serial!updateConfiguration, Serial!resetController \o Serial!updateConfiguration} :
             script' = Append(u, last)
    /\ UNCHANGED <<gateway, core>>
LineClosed ==
    /\ gateway = "starting" /\ toGateway' \in Seq(Lines) /\ script' = <<>>
    /\ gateway' \in {"starting", "failed"}
    /\ UNCHANGED core
LineCalls ==
    /\ gateway = "running" /\ script' \in Seq(MessageCommands)
    /\ UNCHANGED <<gateway, core, fd, toGateway, ownAddress>>
LineConnects ==
    /\ script # <<>> /\ script' = Tail(script) /\ Head(script)[1] = "notify"
    /\ core' = "connected" /\ gateway' = "running"
    /\ UNCHANGED <<fd, toGateway, ownAddress>>

LineStep ==
    \/ LineStays \/ LineGoesOn \/ (\E w \in ConfigFields : LineReads(w)) \/ LineEnds
    \/ LineOpens \/ LineClosed \/ LineCalls \/ LineConnects

\* The head and the tail of a script.
LEMMA ScriptTail ==
  ASSUME LineShape, script # <<>>
  PROVE  /\ Len(script) \in Nat /\ Len(script) > 0 /\ Head(script) = script[1] /\ script[1] \in Commands
         /\ Tail(script) \in Seq(Commands) /\ Len(Tail(script)) = Len(script) - 1
         /\ \A i \in 1..Len(Tail(script)) : i + 1 \in 1..Len(script) /\ Tail(script)[i] = script[i + 1]
<1>1. script \in Seq(Commands)
  BY DEF LineShape
<1> QED  BY <1>1, QueueTail

\* The end of a script is its last step.
LEMMA EndIsLast ==
  ASSUME LineShape, script # <<>>, Head(script)[1] \in {"notify", "close"}
  PROVE  gateway = "starting" /\ Len(script) = 1 /\ Tail(script) = <<>>
<1>1. Head(script) = script[1] /\ Len(script) \in Nat /\ 1 \in 1..Len(script)
  BY ScriptTail
<1>2. script[1] \notin ConfigCommands /\ script[1] \notin MessageCommands
  BY <1>1, CommandKinds
<1>3. gateway = "starting"
  BY <1>1, <1>2 DEF LineShape
<1>4. Len(script) = 1
  BY <1>1, <1>2, <1>3 DEF LineShape
<1>5. Tail(script) \in Seq(Commands) /\ Len(Tail(script)) = 0
  BY <1>4, ScriptTail
<1> QED  BY <1>3, <1>4, <1>5, EmptySeq

\* Only begin() and getMaximumMessageLength read the configuration.
LEMMA ReadStarting ==
  ASSUME LineShape, script # <<>>, Head(script)[1] = "read", Head(script)[2] \in ConfigFields
  PROVE  gateway = "starting"
<1>1. Head(script) = script[1] /\ 1 \in 1..Len(script)
  BY ScriptTail
<1>2. script[1] \notin MessageCommands
  BY <1>1, CommandKinds DEF ConfigFields, MessageFields
<1> QED  BY <1>1, <1>2 DEF LineShape

\* A step of a script that is done leaves the rest.
LEMMA ShapeTail ==
  ASSUME LineShape, script # <<>>, script' = Tail(script), toGateway' \in Seq(Lines), UNCHANGED <<gateway, fd>>
  PROVE  LineShape'
<1>1. script' \in Seq(Commands)
  BY ScriptTail
<1>2. gateway = "starting" => \A i \in 1..Len(script') :
          script'[i] \in ConfigCommands \/ (i = Len(script') /\ script'[i] \in EndCommands)
  <2> SUFFICES ASSUME gateway = "starting", NEW i \in 1..Len(script')
               PROVE  script'[i] \in ConfigCommands \/ (i = Len(script') /\ script'[i] \in EndCommands)
    OBVIOUS
  <2>1. i + 1 \in 1..Len(script) /\ script'[i] = script[i + 1] /\ Len(script') = Len(script) - 1 /\ Len(script) \in Nat
    BY ScriptTail
  <2>2. script[i + 1] \in ConfigCommands \/ (i + 1 = Len(script) /\ script[i + 1] \in EndCommands)
    BY <2>1 DEF LineShape
  <2>3. i + 1 = Len(script) => i = Len(script')
    <3>1. \A a, b \in Int : a + 1 = b => a = b - 1
      OBVIOUS
    <3>2. i \in Int /\ Len(script) \in Int
      BY <2>1
    <3>3. i + 1 = Len(script) => i = Len(script) - 1
      BY <3>1, <3>2
    <3> QED  BY <2>1, <3>3
  <2>4. script'[i] = script[i + 1]
    BY <2>1
  <2>5. CASE script[i + 1] \in ConfigCommands
    BY <2>4, <2>5
  <2>6. CASE i + 1 = Len(script) /\ script[i + 1] \in EndCommands
    BY <2>3, <2>4, <2>6
  <2> QED  BY <2>2, <2>5, <2>6
<1>3. gateway # "starting" => \A i \in 1..Len(script') : script'[i] \in MessageCommands
  BY ScriptTail DEF LineShape
<1> QED  BY <1>1, <1>2, <1>3 DEF LineShape

\* What is left to be read is read before the end.
LEMMA ReadyTail ==
  ASSUME LineShape, LineReady, script # <<>>, script' = Tail(script),
         NEW w, Head(script) # <<"read", w>>, Asks(w)
  PROVE  Asks(w)'
<1>1. PICK i \in 1..Len(script) : script[i] = <<"read", w>>
  BY DEF Asks
<1>2. i # 1 /\ Len(script) \in Nat /\ Len(script') = Len(script) - 1
  BY <1>1, ScriptTail
<1>3. i - 1 \in 1..Len(script')
  BY <1>2
<1>4. script'[i - 1] = script[(i - 1) + 1]
  BY <1>3, ScriptTail
<1>5. script'[i - 1] = <<"read", w>>
  BY <1>1, <1>4
<1> QED  BY <1>3, <1>5 DEF Asks

\* The script without its first step promises notify only if the script does.
LEMMA NotifyTail ==
  ASSUME LineShape, script # <<>>, script' = Tail(script), \E i \in 1..Len(script') : script'[i] = <<"notify">>
  PROVE  \E i \in 1..Len(script) : script[i] = <<"notify">>
BY ScriptTail

\* Every such step keeps the shape of the script.
LEMMA ShapeKept ==
  ASSUME LineShape, LineStep
  PROVE  LineShape'
<1>1. CASE LineStays
  BY <1>1 DEF LineStays, LineShape
<1>2. CASE LineGoesOn
  BY <1>2, ShapeTail DEF LineGoesOn
<1>3. ASSUME NEW w \in ConfigFields, LineReads(w) PROVE LineShape'
  BY <1>3, ShapeTail DEF LineReads
<1>4. ASSUME script' = <<>>, toGateway' \in Seq(Lines), gateway' = "running" => fd' PROVE LineShape'
  <2>1. script' \in Seq(Commands) /\ Len(script') = 0
    BY <1>4
  <2>2. \A i \in 1..Len(script') : FALSE
    BY <2>1
  <2> QED  BY <1>4, <2>1, <2>2 DEF LineShape
<1>5. CASE LineEnds
  BY <1>5, <1>4 DEF LineEnds, LineShape
<1>6. CASE LineOpens
  <2>1. PICK last \in EndCommands,
             u \in {Serial!updateConfiguration, Serial!resetController \o Serial!updateConfiguration} :
             script' = Append(u, last)
    BY <1>6 DEF LineOpens
  <2>2. Configures(script', last)
    BY <2>1, BeginScript
  <2>3. /\ script' \in Seq(Commands)
        /\ \A i \in 1..Len(script') : script'[i] \in ConfigCommands \/ (i = Len(script') /\ script'[i] = last)
    BY <2>2 DEF Configures
  <2> QED  BY <1>6, <2>3 DEF LineOpens, LineShape
<1>7. CASE LineClosed
  BY <1>7, <1>4 DEF LineClosed
<1>8. CASE LineCalls
  <2>1. script' \in Seq(MessageCommands) /\ MessageCommands \subseteq Commands
    BY <1>8 DEF LineCalls, Commands
  <2>2. script' \in Seq(Commands) /\ \A i \in 1..Len(script') : script'[i] \in MessageCommands
    BY <2>1
  <2> QED  BY <1>8, <2>2 DEF LineCalls, LineShape
<1>9. CASE LineConnects
  <2>1. script' = <<>> /\ fd
    BY <1>9, EndIsLast DEF LineConnects, LineShape
  <2> QED  BY <1>9, <2>1, <1>4 DEF LineConnects, LineShape
<1> QED  BY <1>1, <1>2, <1>3, <1>5, <1>6, <1>7, <1>8, <1>9 DEF LineStep

\* Every such step keeps what notify_socket_connected promises.
LEMMA ReadyKept ==
  ASSUME LineShape, LineReady, LineStep
  PROVE  LineReady'
<1>n. ASSUME script' = <<>> PROVE ~\E i \in 1..Len(script') : script'[i] = <<"notify">>
  BY <1>n
<1>1. CASE LineStays
  BY <1>1 DEF LineStays, LineReady, Asks
<1>2. CASE LineGoesOn
  <2>1. Head(script) # <<"read", "OWN_ADDRESS">>
    <3>1. ASSUME NEW w \in ConfigFields PROVE Head(script) # <<"read", w>>
      BY <1>2 DEF LineGoesOn, ConfigFields, MessageFields
    <3> QED  BY <3>1 DEF ConfigFields
  <2>2. Asks("OWN_ADDRESS") => Asks("OWN_ADDRESS")'
    <3>1. script # <<>> /\ script' = Tail(script)
      BY <1>2 DEF LineGoesOn
    <3> QED  BY <2>1, <3>1, ReadyTail
  <2>3. (\E i \in 1..Len(script') : script'[i] = <<"notify">>) => \E i \in 1..Len(script) : script[i] = <<"notify">>
    BY <1>2, NotifyTail DEF LineGoesOn
  <2> QED  BY <1>2, <2>2, <2>3 DEF LineGoesOn, LineReady
<1>3. ASSUME NEW w \in ConfigFields, LineReads(w) PROVE LineReady'
  <2>1. gateway = "starting" /\ core # "connected" /\ core' # "connected"
    BY <1>3, ReadStarting DEF LineReads, LineReady
  <2>2. (\E i \in 1..Len(script') : script'[i] = <<"notify">>) => \E i \in 1..Len(script) : script[i] = <<"notify">>
    BY <1>3, NotifyTail DEF LineReads
  <2>3. script # <<>> /\ script' = Tail(script) /\ Head(script)[2] = w
    BY <1>3 DEF LineReads
  <2>4. ownAddress \in Addresses \/ Asks("OWN_ADDRESS") => ownAddress' \in Addresses \/ Asks("OWN_ADDRESS")'
    <3>1. CASE w = "OWN_ADDRESS"
      BY <1>3, <3>1 DEF LineReads
    <3>2. CASE w # "OWN_ADDRESS"
      <4>1. Head(script) # <<"read", "OWN_ADDRESS">>
        BY <2>3, <3>2
      <4>2. ownAddress' = ownAddress
        BY <1>3, <3>2 DEF LineReads
      <4> QED  BY <2>3, <4>1, <4>2, ReadyTail
    <3> QED  BY <3>1, <3>2
  <2> QED  BY <2>1, <2>2, <2>4 DEF LineReady
<1>5. CASE LineEnds
  <2>1. core' = "connected" => gateway' # "starting" /\ fd' /\ ownAddress' \in Addresses
    BY <1>5 DEF LineEnds, LineReady
  <2>2. script' = <<>>
    BY <1>5 DEF LineEnds
  <2> QED  BY <1>n, <2>1, <2>2 DEF LineReady
<1>6. CASE LineOpens
  <2>1. PICK last \in EndCommands,
             u \in {Serial!updateConfiguration, Serial!resetController \o Serial!updateConfiguration} :
             script' = Append(u, last)
    BY <1>6 DEF LineOpens
  <2>2. Asks("OWN_ADDRESS")'
    <3>1. Configures(script', last)
      BY <2>1, BeginScript
    <3> QED  BY <3>1 DEF Configures, Asks
  <2>3. core' # "connected"
    BY <1>6 DEF LineOpens, LineReady
  <2> QED  BY <2>2, <2>3 DEF LineReady
<1>7. CASE LineClosed
  <2>1. core' # "connected" /\ script' = <<>>
    BY <1>7 DEF LineClosed, LineReady
  <2> QED  BY <1>n, <2>1 DEF LineReady
<1>8. CASE LineCalls
  <2>1. \A i \in 1..Len(script') : script'[i] \in MessageCommands
    BY <1>8 DEF LineCalls
  <2>2. <<"notify">> \notin MessageCommands
    BY CommandKinds
  <2>3. core' = "connected" => gateway' # "starting" /\ fd' /\ ownAddress' \in Addresses
    BY <1>8 DEF LineCalls, LineReady
  <2> QED  BY <2>1, <2>2, <2>3 DEF LineReady
<1>9. CASE LineConnects
  <2>1. script' = <<>> /\ fd /\ Len(script) = 1 /\ gateway = "starting"
    BY <1>9, EndIsLast DEF LineConnects, LineShape
  <2>2. script[1] = <<"notify">>
    <3>1. Head(script)[1] = "notify" /\ script # <<>>
      BY <1>9 DEF LineConnects
    <3>2. Head(script) = script[1] /\ script[1] \in Commands
      BY <3>1, ScriptTail
    <3> QED  BY <3>1, <3>2, CommandForms
  <2>3. \E i \in 1..Len(script) : script[i] = <<"notify">>
    BY <2>1, <2>2
  <2>4. ~Asks("OWN_ADDRESS")
    <3>1. ASSUME NEW w PROVE <<"notify">> # <<"read", w>>
      OBVIOUS
    <3> QED  BY <2>1, <2>2, <3>1 DEF Asks
  <2>5. ownAddress \in Addresses
    BY <2>3, <2>4 DEF LineReady
  <2> QED  BY <1>9, <1>n, <2>1, <2>5 DEF LineConnects, LineReady
<1> QED  BY <1>1, <1>2, <1>3, <1>5, <1>6, <1>7, <1>8, <1>9 DEF LineStep

\* A read that goes on has read what it asked for.
LEMMA ReadGoesOn ==
  ASSUME NEW w \in ConfigFields, NEW l \in Lines, Serial!ReadParts(w, l), Serial!ReadOK(w, l)
  PROVE  IF w = "OWN_ADDRESS" THEN ownAddress' \in Addresses ELSE UNCHANGED ownAddress
<1>1. CASE w = "OWN_ADDRESS"
  <2>1. ownAddress' = Serial!readOwnAddress(l).value
    BY <1>1 DEF Serial!ReadParts
  <2>2. Serial!readOwnAddress(l).ok
    BY <1>1 DEF Serial!ReadOK
  <2>3. /\ l[1] = "OWN_ADDRESS" /\ l[2] \notin {Serial!NA, Serial!Bad, Serial!Short}
        /\ Serial!readOwnAddress(l).value = l[2]
    BY <2>2 DEF Serial!readOwnAddress, Serial!Parsed
  <2>4. l[2] \in Addresses
    BY <2>3 DEF Lines, AddressFields
  <2> QED  BY <1>1, <2>1, <2>3, <2>4
<1>2. CASE w # "OWN_ADDRESS"
  BY <1>2 DEF Serial!ReadParts
<1> QED  BY <1>1, <1>2

\* Lines that are read are taken off the line.
LEMMA LinesTail ==
  ASSUME toGateway \in Seq(Lines), toGateway # <<>>
  PROVE  Head(toGateway) \in Lines /\ Tail(toGateway) \in Seq(Lines)
BY QueueTail

\* A step of a script that reads the configuration reads one of its parts.
LEMMA ReadConfigField ==
  ASSUME LineShape, script # <<>>, Head(script)[1] = "read", Head(script)[2] \notin {"ADDRESS", "DATA"}
  PROVE  Head(script)[2] \in ConfigFields
BY ScriptTail, CommandForms DEF MessageFields

\* The steps the two sockets share.
LEMMA SharedLine ==
  ASSUME LineShape,
         \/ Serial!send \/ Serial!loop \/ Serial!write_line \/ Serial!wait_line \/ Serial!receiveData
         \/ Serial!notify_socket_connected \/ Serial!bridge_answers
  PROVE  LineStep
<1>t. toGateway \in Seq(Lines) /\ script \in Seq(Commands)
  BY DEF LineShape
<1>1. CASE Serial!send
  <2>1. PICK a \in Addresses, m \in Radio : script' = Serial!SendScript(a, m[2])
    BY <1>1 DEF Serial!send
  <2>2. script' \in Seq(MessageCommands)
    BY <2>1, MessageScripts
  <2>3. LineCalls
    BY <1>1, <2>2 DEF Serial!send, LineCalls, Serial!line, Serial!read, Serial!config
  <2> QED  BY <2>3 DEF LineStep
<1>2. CASE Serial!loop
  <2>1. LineCalls
    BY <1>2, MessageScripts DEF Serial!loop, LineCalls, Serial!line, Serial!read, Serial!config
  <2> QED  BY <2>1 DEF LineStep
<1>3. CASE Serial!write_line
  <2>1. LineGoesOn
    BY <1>3, <1>t DEF Serial!write_line, LineGoesOn, Serial!Returns, Serial!Step, Serial!read, Serial!config
  <2> QED  BY <2>1 DEF LineStep
<1>4. CASE Serial!wait_line
  <2>1. toGateway' \in Seq(Lines)
    BY <1>4, <1>t, LinesTail DEF Serial!wait_line
  <2>2. CASE script' = Tail(script)
    <3>1. LineGoesOn
      BY <1>4, <2>1, <2>2 DEF Serial!wait_line, LineGoesOn, Serial!Step, Serial!read, Serial!config
    <3> QED  BY <3>1 DEF LineStep
  <2>3. CASE script' = script
    <3>1. LineStays
      BY <1>4, <2>1, <2>3 DEF Serial!wait_line, LineStays, Serial!read, Serial!config
    <3> QED  BY <3>1 DEF LineStep
  <2> QED  BY <1>4, <2>2, <2>3 DEF Serial!wait_line, Serial!Returns
<1>5. CASE Serial!receiveData
  <2>1. LineGoesOn
    BY <1>5, <1>t DEF Serial!receiveData, LineGoesOn, Serial!Returns, Serial!Step, Serial!line, Serial!read, Serial!config
  <2> QED  BY <2>1 DEF LineStep
<1>6. CASE Serial!notify_socket_connected
  <2>1. LineConnects
    BY <1>6 DEF Serial!notify_socket_connected, LineConnects, Serial!Returns, Serial!Step, Serial!line, Serial!read, Serial!config
  <2> QED  BY <2>1 DEF LineStep
<1>7. CASE Serial!bridge_answers
  <2>1. PICK a \in Serial!Answers(Head(toBridge)) : toGateway' = toGateway \o a.lines
    BY <1>7 DEF Serial!bridge_answers
  <2>2. a.lines \in Seq(Lines)
    BY AnswerLines
  <2>3. toGateway' \in Seq(Lines)
    BY <1>t, <2>1, <2>2
  <2>4. LineStays
    BY <1>7, <2>3 DEF Serial!bridge_answers, LineStays, Serial!read, Serial!config
  <2> QED  BY <2>4 DEF LineStep
<1> QED  BY <1>1, <1>2, <1>3, <1>4, <1>5, <1>6, <1>7

\* The steps of LinuxSerialSocket.
LEMMA SerialLine ==
  ASSUME LineShape, Serial!Next
  PROVE  LineStep
<1>t. toGateway \in Seq(Lines) /\ script \in Seq(Commands) /\ (script # <<>> => fd)
  BY DEF LineShape
<1>1. CASE Serial!begin
  <2>1. CASE script' = Append(Serial!resetController \o Serial!updateConfiguration, <<"notify">>) /\ fd' /\ UNCHANGED gateway
    <3>1. <<"notify">> \in EndCommands
      BY DEF EndCommands
    <3>2. \E last \in EndCommands :
             \E u \in {Serial!updateConfiguration, Serial!resetController \o Serial!updateConfiguration} :
                script' = Append(u, last)
      BY <2>1, <3>1
    <3>3. LineOpens
      BY <1>1, <1>t, <2>1, <3>2 DEF Serial!begin, LineOpens, Serial!line
    <3> QED  BY <3>3 DEF LineStep
  <2>2. CASE gateway' = "failed" /\ UNCHANGED <<fd, script>>
    <3>1. LineClosed
      BY <1>1, <1>t, <2>2 DEF Serial!begin, LineClosed, Serial!line
    <3> QED  BY <3>1 DEF LineStep
  <2> QED  BY <1>1, <2>1, <2>2 DEF Serial!begin
<1>2. CASE Serial!read_line
  <2>1. /\ script # <<>> /\ Head(script)[1] = "read" /\ Head(toGateway) \in Lines /\ toGateway' \in Seq(Lines)
        /\ UNCHANGED <<core, fd>>
    BY <1>2, <1>t, LinesTail DEF Serial!read_line, Serial!Step
  <2>2. CASE Head(script)[2] \in {"ADDRESS", "DATA"}
    <3>1. Serial!ReadMessage(Head(script)[2], Head(toGateway))
      BY <1>2, <2>2 DEF Serial!read_line, Serial!Step
    <3>2. LineGoesOn
      BY <2>1, <2>2, <3>1 DEF LineGoesOn, Serial!ReadMessage, Serial!Returns, Serial!config, MessageFields
    <3> QED  BY <3>2 DEF LineStep
  <2>3. CASE Head(script)[2] \notin {"ADDRESS", "DATA"}
    <3> DEFINE w == Head(script)[2]
               l == Head(toGateway)
    <3>1. w \in ConfigFields /\ gateway = "starting"
      BY <2>1, <2>3, ReadConfigField, ReadStarting
    <3>2. Serial!ReadConfig(w, l)
      BY <1>2, <2>3 DEF Serial!read_line, Serial!Step
    <3>3. CASE Serial!ReadOK(w, l)
      <4>1. LineReads(w)
        BY <2>1, <3>1, <3>2, <3>3, ReadGoesOn DEF LineReads, Serial!ReadConfig, Serial!Returns
      <4> QED  BY <3>1, <4>1 DEF LineStep
    <3>4. CASE ~Serial!ReadOK(w, l)
      <4>1. LineEnds
        BY <2>1, <3>1, <3>2, <3>4 DEF LineEnds, Serial!ReadConfig
      <4> QED  BY <4>1 DEF LineStep
    <3> QED  BY <3>3, <3>4
  <2> QED  BY <2>2, <2>3
<1>3. CASE Serial!bridge_restarts
  <2>1. Serial!OK("IDLE") \in Lines
    BY DEF Serial!OK, Lines, Keywords, ConfigFields, MessageFields, AddressFields, Arguments
  <2>2. toGateway' \in Seq(Lines)
    BY <1>3, <1>t, <2>1, QueueAppend DEF Serial!bridge_restarts
  <2>3. LineStays
    BY <1>3, <2>2 DEF Serial!bridge_restarts, LineStays, Serial!read, Serial!config
  <2> QED  BY <2>3 DEF LineStep
<1>4. CASE Serial!line_fault
  <2>1. toGateway' \in Seq(Lines)
    <3>1. CASE UNCHANGED toGateway
      BY <1>t, <3>1
    <3>2. ASSUME NEW i \in DOMAIN toGateway,
                 toGateway' \in {Serial!RemoveAt(toGateway, i), [toGateway EXCEPT ![i] = <<"?", Serial!Bad>>],
                                 [toGateway EXCEPT ![i] = <<@[1], Serial!Bad>>]}
          PROVE  toGateway' \in Seq(Lines)
      BY <1>t, <3>2, FaultyLines
    <3> QED  BY <1>4, <3>1, <3>2 DEF Serial!line_fault
  <2>2. LineStays
    BY <1>4, <2>1 DEF Serial!line_fault, LineStays, Serial!read, Serial!config
  <2> QED  BY <2>2 DEF LineStep
<1> QED  BY <1>1, <1>2, <1>3, <1>4, SharedLine DEF Serial!Next, Serial!Steps

\* The steps that LinuxTelnetSocket shares with LinuxSerialSocket.
LEMMA SameSteps ==
  /\ Telnet!Serial!send => Serial!send
  /\ Telnet!Serial!loop => Serial!loop
  /\ Telnet!Serial!write_line => Serial!write_line
  /\ Telnet!Serial!wait_line => Serial!wait_line
  /\ Telnet!Serial!receiveData => Serial!receiveData
  /\ Telnet!Serial!notify_socket_connected => Serial!notify_socket_connected
  /\ Telnet!Serial!bridge_answers => Serial!bridge_answers
<1>1. Telnet!Serial!send => Serial!send
  BY SameScripts DEF Telnet!Serial!send, Serial!send, Telnet!Serial!line, Serial!line, Telnet!Serial!read, Serial!read,
     Telnet!Serial!config, Serial!config
<1>2. Telnet!Serial!loop => Serial!loop
  BY SameScripts DEF Telnet!Serial!loop, Serial!loop, Telnet!Serial!line, Serial!line, Telnet!Serial!read, Serial!read,
     Telnet!Serial!config, Serial!config
<1>3. Telnet!Serial!write_line => Serial!write_line
  BY DEF Telnet!Serial!write_line, Serial!write_line, Telnet!Serial!read, Serial!read, Telnet!Serial!config, Serial!config,
     Telnet!Serial!Step, Serial!Step, Telnet!Serial!Returns, Serial!Returns
<1>4. Telnet!Serial!wait_line => Serial!wait_line
  BY DEF Telnet!Serial!wait_line, Serial!wait_line, Telnet!Serial!read, Serial!read, Telnet!Serial!config, Serial!config,
     Telnet!Serial!Step, Serial!Step, Telnet!Serial!Returns, Serial!Returns
<1>5. Telnet!Serial!receiveData => Serial!receiveData
  BY SameLines DEF Telnet!Serial!receiveData, Serial!receiveData, Telnet!Serial!line, Serial!line, Telnet!Serial!read, Serial!read,
     Telnet!Serial!config, Serial!config, Telnet!Serial!Step, Serial!Step, Telnet!Serial!Returns, Serial!Returns
<1>6. Telnet!Serial!notify_socket_connected => Serial!notify_socket_connected
  BY DEF Telnet!Serial!notify_socket_connected, Serial!notify_socket_connected, Telnet!Serial!line, Serial!line,
     Telnet!Serial!read, Serial!read, Telnet!Serial!config, Serial!config, Telnet!Serial!Step, Serial!Step,
     Telnet!Serial!Returns, Serial!Returns
<1>7. Telnet!Serial!bridge_answers => Serial!bridge_answers
  BY SameLines DEF Telnet!Serial!bridge_answers, Serial!bridge_answers, Telnet!Serial!read, Serial!read,
     Telnet!Serial!config, Serial!config
<1> QED  BY <1>1, <1>2, <1>3, <1>4, <1>5, <1>6, <1>7

\* The steps of LinuxTelnetSocket.
LEMMA TelnetLine ==
  ASSUME LineShape, Telnet!Next
  PROVE  LineStep
<1>t. toGateway \in Seq(Lines) /\ script \in Seq(Commands) /\ (script # <<>> => fd)
  BY DEF LineShape
<1>e. <<"notify">> \in EndCommands /\ <<"close">> \in EndCommands /\ <<>> \in Seq(Lines)
  BY DEF EndCommands
<1>o. ASSUME Telnet!initTelnetPort(TRUE), gateway = "starting", UNCHANGED <<gateway, core>>,
             NEW last \in EndCommands, script' = Append(Telnet!updateConfiguration, last)
      PROVE  LineStep
  <2>1. fd' /\ toGateway' \in Seq(Lines)
    BY <1>o, <1>e DEF Telnet!initTelnetPort
  <2>2. \E e \in EndCommands :
           \E u \in {Serial!updateConfiguration, Serial!resetController \o Serial!updateConfiguration} :
              script' = Append(u, e)
    BY <1>o, SameScripts
  <2>3. LineOpens
    BY <1>o, <2>1, <2>2 DEF LineOpens
  <2> QED  BY <2>3 DEF LineStep
<1>f. ASSUME Telnet!initTelnetPort(FALSE), gateway = "starting", gateway' \in {"starting", "failed"}, UNCHANGED core,
             script = <<>>, UNCHANGED script
      PROVE  LineStep
  <2>1. LineClosed
    BY <1>f, <1>e DEF Telnet!initTelnetPort, LineClosed
  <2> QED  BY <2>1 DEF LineStep
<1>1. CASE Telnet!begin
  <2>1. gateway = "starting" /\ script = <<>> /\ UNCHANGED core
    BY <1>1 DEF Telnet!begin
  <2>2. CASE Telnet!initTelnetPort(TRUE) /\ script' = Append(Telnet!updateConfiguration, <<"notify">>) /\ UNCHANGED gateway
    BY <1>e, <1>o, <2>1, <2>2
  <2>3. CASE Telnet!initTelnetPort(FALSE) /\ gateway' = "failed" /\ UNCHANGED script
    BY <1>f, <2>1, <2>3
  <2> QED  BY <1>1, <2>2, <2>3 DEF Telnet!begin
<1>2. CASE Telnet!getMaximumMessageLength
  <2>1. gateway = "starting" /\ script = <<>> /\ UNCHANGED <<gateway, core>>
    BY <1>2, <1>t DEF Telnet!getMaximumMessageLength
  <2>2. CASE Telnet!initTelnetPort(TRUE) /\ script' = Append(Telnet!updateConfiguration, <<"close">>)
    BY <1>e, <1>o, <2>1, <2>2
  <2>3. CASE Telnet!initTelnetPort(FALSE) /\ UNCHANGED script
    BY <1>f, <2>1, <2>3
  <2> QED  BY <1>2, <2>2, <2>3 DEF Telnet!getMaximumMessageLength
<1>3. CASE Telnet!write_closed
  <2>1. /\ script # <<>> /\ Head(script)[1] = "write" /\ toGateway' \in Seq(Lines)
        /\ UNCHANGED <<core, fd, ownAddress>>
    BY <1>3, <1>t DEF Telnet!write_closed, Telnet!Step, Telnet!line, Telnet!read, Telnet!config
  <2>2. CASE script' = Tail(script) /\ UNCHANGED gateway
    <3>1. LineGoesOn
      BY <2>1, <2>2 DEF LineGoesOn
    <3> QED  BY <3>1 DEF LineStep
  <2>3. CASE gateway' = "killed" /\ script' = <<>>
    <3>1. LineEnds
      BY <2>1, <2>3 DEF LineEnds
    <3> QED  BY <3>1 DEF LineStep
  <2> QED  BY <1>3, <2>2, <2>3 DEF Telnet!write_closed, Telnet!Returns
<1>4. CASE Telnet!wait_gives_up
  <2>1. /\ script # <<>> /\ Head(script)[1] = "wait" /\ toGateway' \in Seq(Lines)
        /\ UNCHANGED <<core, fd, ownAddress>>
    BY <1>4, <1>t DEF Telnet!wait_gives_up, Telnet!Step, Telnet!line, Telnet!read, Telnet!config
  <2>2. CASE script' = Tail(script) /\ UNCHANGED gateway
    <3>1. LineGoesOn
      BY <2>1, <2>2 DEF LineGoesOn
    <3> QED  BY <3>1 DEF LineStep
  <2>3. CASE Telnet!Fails
    <3>1. LineEnds
      BY <2>1, <2>3 DEF LineEnds, Telnet!Fails
    <3> QED  BY <3>1 DEF LineStep
  <2> QED  BY <1>4, <2>2, <2>3 DEF Telnet!wait_gives_up, Telnet!Returns
<1>5. CASE Telnet!read_line
  <2>1. /\ script # <<>> /\ Head(script)[1] = "read" /\ Head(toGateway) \in Lines /\ toGateway' \in Seq(Lines)
        /\ UNCHANGED <<core, fd>>
    BY <1>5, <1>t, LinesTail DEF Telnet!read_line, Telnet!Step
  <2>2. CASE Head(script)[2] \in {"ADDRESS", "DATA"}
    <3>1. Serial!ReadMessage(Head(script)[2], Head(toGateway))
      BY <1>5, <2>2, SameReads DEF Telnet!read_line, Telnet!Step
    <3>2. LineGoesOn
      BY <2>1, <2>2, <3>1 DEF LineGoesOn, Serial!ReadMessage, Serial!Returns, Serial!config, MessageFields
    <3> QED  BY <3>2 DEF LineStep
  <2>3. CASE Head(script)[2] \notin {"ADDRESS", "DATA"}
    <3> DEFINE w == Head(script)[2]
               l == Head(toGateway)
    <3>1. w \in ConfigFields /\ gateway = "starting"
      BY <2>1, <2>3, ReadConfigField, ReadStarting
    <3>2. /\ Serial!ReadParts(w, l)
          /\ IF Serial!ReadOK(w, l) THEN script' = Tail(script) /\ UNCHANGED gateway ELSE Telnet!Fails
      BY <1>5, <2>3, SameReads DEF Telnet!read_line, Telnet!Step, Telnet!Returns
    <3>3. CASE Serial!ReadOK(w, l)
      <4>1. LineReads(w)
        BY <2>1, <3>1, <3>2, <3>3, ReadGoesOn DEF LineReads
      <4> QED  BY <3>1, <4>1 DEF LineStep
    <3>4. CASE ~Serial!ReadOK(w, l)
      <4>1. LineEnds
        BY <2>1, <3>1, <3>2, <3>4 DEF LineEnds, Telnet!Fails
      <4> QED  BY <4>1 DEF LineStep
    <3> QED  BY <3>3, <3>4
  <2> QED  BY <2>2, <2>3
<1>6. CASE Telnet!read_closed
  <2>1. script # <<>> /\ Head(script)[1] = "read" /\ toGateway' \in Seq(Lines) /\ UNCHANGED <<core, fd>>
    BY <1>6, <1>t DEF Telnet!read_closed, Telnet!Step, Telnet!line
  <2>2. CASE gateway' = "killed" /\ script' = <<>> /\ UNCHANGED Telnet!read
    <3>1. LineEnds
      BY <2>1, <2>2 DEF LineEnds, Telnet!read, Telnet!config
    <3> QED  BY <3>1 DEF LineStep
  <2>3. CASE Head(script)[2] \in {"ADDRESS", "DATA"} /\ Telnet!Serial!ReadMessage(Head(script)[2], <<"?", Telnet!Serial!Bad>>)
    <3>1. Serial!ReadMessage(Head(script)[2], <<"?", Telnet!Serial!Bad>>)
      BY <2>3, SameReads
    <3>2. LineGoesOn
      BY <2>1, <2>3, <3>1 DEF LineGoesOn, Serial!ReadMessage, Serial!Returns, Serial!config, MessageFields
    <3> QED  BY <3>2 DEF LineStep
  <2>4. CASE Head(script)[2] \notin {"ADDRESS", "DATA"} /\ Telnet!Fails
    <3>1. gateway = "starting"
      BY <2>1, <2>4, ReadConfigField, ReadStarting
    <3>2. LineEnds
      BY <2>1, <2>4, <3>1 DEF LineEnds, Telnet!Fails
    <3> QED  BY <3>2 DEF LineStep
  <2> QED  BY <1>6, <2>2, <2>3, <2>4 DEF Telnet!read_closed, Telnet!Step
<1>7. CASE Telnet!close_sock
  <2>1. script # <<>> /\ Head(script)[1] = "close" /\ script' = Tail(script) /\ toGateway' = <<>> /\ UNCHANGED <<gateway, core>>
    BY <1>7 DEF Telnet!close_sock, Telnet!Step, Telnet!Returns
  <2>2. gateway = "starting" /\ script' = <<>>
    BY <2>1, EndIsLast
  <2>3. LineClosed
    BY <1>e, <2>1, <2>2 DEF LineClosed
  <2> QED  BY <2>3 DEF LineStep
<1>8. CASE Telnet!bridge_hangs_up
  <2>1. LineStays
    BY <1>8, <1>t DEF Telnet!bridge_hangs_up, LineStays, Telnet!read, Telnet!config
  <2> QED  BY <2>1 DEF LineStep
<1>9. CASE \/ Telnet!send \/ Telnet!loop \/ Telnet!write_line \/ Telnet!wait_line \/ Telnet!receiveData
           \/ Telnet!notify_socket_connected \/ Telnet!bridge_answers
  BY <1>9, SameSteps, SharedLine
     DEF Telnet!send, Telnet!loop, Telnet!write_line, Telnet!wait_line, Telnet!receiveData,
         Telnet!notify_socket_connected, Telnet!bridge_answers
<1> QED  BY <1>1, <1>2, <1>3, <1>4, <1>5, <1>6, <1>7, <1>8, <1>9 DEF Telnet!Next, Telnet!Steps

-----------------------------------------------------------------------------
(* A socket that Core counts on can be used *)

\* Before begin() has returned Core is told nothing.
UdpReady == build = "udp" => Udp!Usable /\ (gateway = "starting" => core # "connected")
SingleReady == build = "single_tcp" => Single!Usable /\ (gateway = "starting" => core # "connected")

\* The acceptor's thread crashes only when it is stopped while it waits for an adapter,
\* which no longer happens once begin() has succeeded.
BleReady ==
    build = "ble" =>
        /\ stopped => gateway # "starting"
        /\ acceptor = "crashed" => stopped
        /\ core = "connected" => acceptor \notin {"start", "wait", "crashed"}

ReadyInv == LineInv /\ UdpReady /\ SingleReady /\ BleReady

\* No build has promised anything at the start.
LEMMA ReadyInit == Init => ReadyInv
<1> SUFFICES ASSUME Init PROVE ReadyInv  OBVIOUS
<1>1. gateway = "starting" /\ core = "unknown" /\ script = <<>> /\ toGateway = <<>> /\ fd = FALSE
  BY DEF Init, Telnet!Init, Telnet!Serial!Init
<1>2. Len(script) = 0 /\ script \in Seq(Commands) /\ toGateway \in Seq(Lines)
  BY <1>1
<1>3. LineShape /\ LineReady
  BY <1>1, <1>2 DEF LineShape, LineReady
<1>4. acceptor = "start" /\ stopped = FALSE
  BY DEF Init, Ble!Init
<1> QED  BY <1>1, <1>3, <1>4 DEF ReadyInv, LineInv, UdpReady, Udp!Usable, SingleReady, Single!Usable, BleReady

\* The build does not change, and its own part takes the step.
LEMMA BuildFrame ==
  ASSUME [Next]_vars
  PROVE  /\ build' = build
         /\ build = "serial" => Serial!Next \/ UNCHANGED vars
         /\ build = "telnet" => Telnet!Next \/ UNCHANGED vars
         /\ build = "udp" => Udp!Next \/ UNCHANGED vars
         /\ build = "single_tcp" => Single!Next \/ UNCHANGED vars
         /\ build = "tcp" => Tcp!Next \/ UNCHANGED vars
         /\ build = "ble" => Ble!Next \/ UNCHANGED vars
<1>1. CASE UNCHANGED vars
  BY <1>1 DEF vars
<1>2. CASE Next
  BY <1>2 DEF Next, SerialStep, TelnetStep, UdpStep, SingleStep, TcpStep, BleStep, ProcessStep
<1> QED  BY <1>1, <1>2

\* A step of the gateway keeps the invariant of the two line builds.
LEMMA LineNext == ASSUME LineInv, [Next]_vars PROVE LineInv'
<1> SUFFICES ASSUME build \in {"serial", "telnet"} PROVE LineShape' /\ LineReady'
  BY BuildFrame DEF LineInv
<1>1. LineShape /\ LineReady
  BY DEF LineInv
<1>2. LineStep
  <2>1. CASE UNCHANGED vars
    <3>1. LineStays
      BY <1>1, <2>1 DEF LineStays, LineShape, vars, lineVars
    <3> QED  BY <3>1 DEF LineStep
  <2> QED  BY <1>1, <2>1, BuildFrame, SerialLine, TelnetLine
<1> QED  BY <1>1, <1>2, ShapeKept, ReadyKept

\* A step of the gateway keeps what begin() of LinuxUdpSocket promised.
LEMMA UdpReadyNext == ASSUME UdpReady, [Next]_vars PROVE UdpReady'
<1> SUFFICES ASSUME build = "udp" PROVE Udp!Usable' /\ (gateway' = "starting" => core' # "connected")
  BY BuildFrame DEF UdpReady
<1>1. Udp!Usable /\ (gateway = "starting" => core # "connected")
  BY DEF UdpReady
<1>b. ASSUME NEW ok \in BOOLEAN, NEW exits \in BOOLEAN, Udp!begin(ok, exits), ok
      PROVE  udp_socket' = "ready" /\ socket_descriptor' = "ready"
  <2>1. PICK u \in Udp!initUdpSocket, m \in Udp!initMulticastUdpSocket :
             /\ udp_socket' = u.fd
             /\ socket_descriptor' = IF u.ok THEN m.fd ELSE socket_descriptor
             /\ ok = (u.ok /\ m.ok)
    BY <1>b DEF Udp!begin
  <2>2. u.ok /\ m.ok
    BY <1>b, <2>1
  <2>3. u.fd = "ready"
    BY <2>2 DEF Udp!initUdpSocket
  <2>4. m.fd = "ready"
    BY <2>2 DEF Udp!initMulticastUdpSocket
  <2> QED  BY <2>1, <2>2, <2>3, <2>4
<1>2. CASE Udp!start
  <2>1. PICK ok \in BOOLEAN, exits \in BOOLEAN : Udp!begin(ok, exits) /\ Udp!Started(ok, exits)
    BY <1>2 DEF Udp!start
  <2>2. core' = "connected" => ok
    BY <1>1, <1>2, <2>1 DEF Udp!start, Udp!Started
  <2>3. gateway' # "starting"
    BY <2>1 DEF Udp!Started
  <2> QED  BY <1>b, <2>1, <2>2, <2>3 DEF Udp!Usable
<1>3. CASE Udp!loop_reopen
  <2>1. PICK ok \in BOOLEAN, exits \in BOOLEAN : Udp!begin(ok, exits) /\ Udp!Reopened(ok, exits)
    BY <1>3 DEF Udp!loop_reopen
  <2>2. core' = "connected" => ok
    BY <2>1 DEF Udp!Reopened
  <2>3. gateway' # "starting"
    BY <1>3, <2>1 DEF Udp!Reopened, Udp!loop_reopen
  <2> QED  BY <1>b, <2>1, <2>2, <2>3 DEF Udp!Usable
<1>4. CASE UNCHANGED Udp!sockets
  BY <1>1, <1>4 DEF Udp!sockets, Udp!Usable
<1>5. Udp!Next => Udp!start \/ Udp!loop_reopen \/ UNCHANGED Udp!sockets
  BY DEF Udp!Next, Udp!loop_enter, Udp!Loop, Udp!receive, Udp!receive_nothing, Udp!loop_return, Udp!send,
         Udp!send_broadcast, Udp!datagram
<1>6. UNCHANGED vars => UNCHANGED Udp!sockets
  BY DEF vars, udpVars, Udp!sockets
<1> QED  BY <1>2, <1>3, <1>4, <1>5, <1>6, BuildFrame

\* A step of the gateway keeps what begin() of SingleTcpSocket promised.
LEMMA SingleReadyNext == ASSUME SingleReady, [Next]_vars PROVE SingleReady'
<1> SUFFICES ASSUME build = "single_tcp" PROVE Single!Usable' /\ (gateway' = "starting" => core' # "connected")
  BY BuildFrame DEF SingleReady
<1>1. Single!Usable /\ (gateway = "starting" => core # "connected")
  BY DEF SingleReady
<1>2. CASE Single!start
  <2>1. PICK ok \in BOOLEAN : Single!initTcpSocket(ok) /\ Single!Started(ok)
    BY <1>2 DEF Single!start
  <2>2. (core' = "connected" => ok) /\ gateway' # "starting"
    BY <1>1, <1>2, <2>1 DEF Single!start, Single!Started, Single!begin
  <2> QED  BY <2>1, <2>2 DEF Single!initTcpSocket, Single!Usable
<1>3. CASE Single!loop_reopen
  <2>1. PICK ok \in BOOLEAN : Single!initTcpSocket(ok) /\ Single!Reopened(ok)
    BY <1>3 DEF Single!loop_reopen
  <2>2. (core' = "connected" => ok) /\ gateway' # "starting"
    BY <1>3, <2>1 DEF Single!loop_reopen, Single!Reopened
  <2> QED  BY <2>1, <2>2 DEF Single!initTcpSocket, Single!Usable
<1>4. CASE UNCHANGED <<core, tcp_socket>> /\ gateway' \in {gateway, "killed"}
  BY <1>1, <1>4 DEF Single!Usable
<1>5. Single!Next => \/ Single!start \/ Single!loop_reopen
                     \/ UNCHANGED <<core, tcp_socket>> /\ gateway' \in {gateway, "killed"}
  BY DEF Single!Next, Single!loop_accept, Single!loop_receive, Single!send_closed, Single!client_connects,
         Single!client_sends, Single!client_closes
<1>6. UNCHANGED vars => UNCHANGED <<core, tcp_socket, gateway>>
  BY DEF vars, singleVars
<1> QED  BY <1>2, <1>3, <1>4, <1>5, <1>6, BuildFrame

\* A step of the gateway keeps what begin() of BLESocket promised.
LEMMA BleReadyNext == ASSUME BleInv, BleReady, [Next]_vars PROVE BleReady'
<1> SUFFICES ASSUME build = "ble"
             PROVE  /\ stopped' => gateway' # "starting"
                    /\ acceptor' = "crashed" => stopped'
                    /\ core' = "connected" => acceptor' \notin {"start", "wait", "crashed"}
  BY BuildFrame DEF BleReady
<1>1. /\ stopped => gateway # "starting"
      /\ acceptor = "crashed" => stopped
      /\ core = "connected" => acceptor \notin {"start", "wait", "crashed"}
  BY DEF BleReady
<1> DEFINE Quiet == UNCHANGED <<gateway, core, stopped, acceptor>>
           Scans == UNCHANGED <<gateway, core, stopped>> /\ acceptor' \notin {"start", "wait", "crashed"}
<1>q. ASSUME Quiet \/ Scans
      PROVE  /\ stopped' => gateway' # "starting"
             /\ acceptor' = "crashed" => stopped'
             /\ core' = "connected" => acceptor' \notin {"start", "wait", "crashed"}
  BY <1>1, <1>q
<1>2. CASE Ble!Acceptor
  <2>1. CASE Ble!loop_start
    BY <1>1, <2>1 DEF Ble!loop_start
  <2>2. CASE Ble!loop_no_adapter
    BY <1>1, <2>2 DEF Ble!loop_no_adapter
  <2>3. CASE Ble!loop_adapter \/ Ble!loop_scan \/ Ble!loop_return \/ \E m \in Macs : Ble!loop_broken(m) \/ Ble!loop_faulty(m) \/ Ble!connect(m)
    <3>1. Quiet \/ Scans
      BY <2>3 DEF Ble!loop_adapter, Ble!loop_scan, Ble!loop_return, Ble!loop_broken, Ble!loop_faulty, Ble!connect
    <3> QED  BY <1>q, <3>1
  <2>4. ASSUME NEW m \in Macs, Ble!loop_device(m) PROVE Quiet \/ Scans
    <3>0. UNCHANGED <<gateway, core, stopped>>
      BY <2>4 DEF Ble!loop_device
    <3>1. CASE ~statistics[m].known
      <4>1. ~statistics[m].inProgress
        <5>1. statistics[m].inProgress \in BOOLEAN
          BY StatisticFields DEF BleInv, BleTypes
        <5> QED  BY <3>1, <5>1 DEF BleInv, ThreadsInv
      <4> QED  BY <2>4, <3>0, <3>1, <4>1 DEF Ble!loop_device
    <3>2. CASE statistics[m].known /\ statistics[m].inProgress
      BY <2>4, <3>0, <3>2 DEF Ble!loop_device
    <3>3. CASE statistics[m].known /\ ~statistics[m].inProgress
      <4>1. acceptor' = m
        BY <2>4, <3>3 DEF Ble!loop_device
      <4> QED  BY <3>0, <4>1, BleConstants
    <3> QED  BY <3>1, <3>2, <3>3
  <2> QED  BY <1>2, <1>q, <2>1, <2>2, <2>3, <2>4 DEF Ble!Acceptor
<1>3. CASE Ble!Gateway
  <2>1. CASE Ble!start_succeeds
    BY <1>1, <2>1 DEF Ble!start_succeeds
  <2>2. CASE Ble!start_fails \/ Ble!destroy
    BY <1>1, <2>2 DEF Ble!start_fails, Ble!destroy
  <2>3. CASE Ble!destroyed
    BY <1>1, <2>3 DEF Ble!destroyed
  <2>4. CASE Ble!loop \/ \E m \in Macs : Ble!send(m)
    <3>1. Quiet
      BY <2>4 DEF Ble!loop, Ble!send, Ble!others
    <3> QED  BY <1>q, <3>1
  <2> QED  BY <1>3, <2>1, <2>2, <2>3, <2>4 DEF Ble!Gateway
<1>4. CASE Ble!Surroundings
  <2>1. Quiet
    BY <1>4 DEF Ble!Surroundings, Ble!tick, Ble!discovered, Ble!others
  <2> QED  BY <1>q, <2>1
<1>5. ASSUME NEW t \in Slots, Ble!Progress(t) \/ Ble!addBLEMessage(t) \/ Ble!link_down(t) PROVE Quiet
  BY <1>5 DEF Ble!Progress, Ble!addBLEMessage, Ble!link_down, Ble!connect_succeeds, Ble!connect_fails,
     Ble!service_fails, Ble!service_found, Ble!mac_empty, Ble!nus_connect, Ble!addBLEConnection, Ble!disconnects,
     Ble!disconnect_throws, Ble!removeBLEConnection, Ble!removeBLEDevice, Ble!unsetConnectionInProgress,
     Ble!thread_ends, Ble!others
<1>6. UNCHANGED vars => Quiet
  BY DEF vars, bleVars
<1> QED  BY <1>q, <1>2, <1>3, <1>4, <1>5, <1>6, BuildFrame DEF Ble!Next

\* notify_socket_connected promises Core a transport that is there and knows its address,
\* in every build and for any number of addresses, clients, devices and faults of the line.
THEOREM ConnectedCorrect == Spec => []ConnectedMeansUsable
<1>1. ReadyInv => ConnectedMeansUsable
  <2> SUFFICES ASSUME ReadyInv PROVE ConnectedMeansUsable  OBVIOUS
  <2>1. build \in {"serial", "telnet"} => Serial!Configured /\ Telnet!Configured
    BY DEF ReadyInv, LineInv, LineReady, Serial!Configured, Telnet!Configured, Telnet!Serial!Configured
  <2> QED  BY <2>1 DEF ReadyInv, UdpReady, SingleReady, BleReady, ConnectedMeansUsable
<1>2. BleInv /\ ReadyInv /\ [Next]_vars => ReadyInv'
  BY LineNext, UdpReadyNext, SingleReadyNext, BleReadyNext DEF ReadyInv
<1> QED  BY <1>1, <1>2, ReadyInit, ThreadsCorrect, PTL DEF Spec

=============================================================================
