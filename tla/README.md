# Formal models of the ESP32-C3 gateway

The gateway is a FreeRTOS program on ESP-IDF 5.3.  It joins a Wi-Fi network as
a station; if that fails it opens an access point with a captive portal on
which a user picks a network; and it publishes what arrives on a serial line as
JSON to an MQTT broker.  A small OLED shows a picture from boot on.  This
directory models its own code: `main/main.c`, the components `WiFi`, `scan`,
`dns_server`, `uart_handler`, `mqtt_gateway` and `espressif__ssd1306`, and the
script of the portal page, `main/root.html`.  ESP-IDF and the display's
controller are modelled only as far as this code relies on them.

- [1. The system](#1-the-system)
- [2. The models](#2-the-models)
- [3. The runs](#3-the-runs)
- [4. What the runs found](#4-what-the-runs-found)
- [5. The proofs](#5-the-proofs)
- [6. Assumptions about ESP-IDF](#6-assumptions-about-esp-idf)
- [7. What is not modelled](#7-what-is-not-modelled)
- [8. Plan](#8-plan)

## 1. The system

### Parts, their state and their operations

| Part | State | Operations |
|---|---|---|
| Station bring-up (`WiFi.c`) | `s_wifi_event_group`, `s_retry_num`, registered handlers, Wi-Fi mode | `wifi_init`, `wifi_init_sta`, `STA_event_handler`, `wifi_init_softapsta` |
| Credentials (`WiFi.c`, `main.c`) | `wifi_creds`, NVS namespace `wifi_config` | `nvs_read`, `nvs_write`, `wifi_config_post_handler` |
| Access point scan (`scan.c`, `main.c`) | `g_ap_info`, `g_ap_count` | `wifi_scan_task`, `get_wifi_list_json`, `wifi_list_get_handler` |
| HTTP server (`main.c`) | routes, chosen by the Wi-Fi mode | `start_webserver` and the handlers |
| DNS server (`dns_server.c`) | a UDP socket, one datagram and its reply | `dns_server_task`, `parse_dns_request`, `parse_dns_name` |
| Serial line (`uart_handler.c`) | `data_uart_queue`, the driver's ring buffer, `dtmp` | `uart_event_task`, `parse_data_to_json`, `uart_handler_init` |
| MQTT client (`mqtt_gateway.c`) | `client`; in esp-mqtt: connection, outbox | `mqtt_app_start`, `mqtt_event_handler`, `mqtt_publish_data` |
| Portal page (`root.html`) | the rendered list, the manual field, the button, requests under way | the listeners, `loadWiFiList`, `updateWiFiList`, the submit |
| Display (`espressif__ssd1306`, `main.c`) | the I2C bus, `s_chDisplayBuffer`; in the panel: its memory, place and settings | `i2c_bus_init`, `ssd1306_create`, `ssd1306_init`, `ssd1306_refresh_gram`, `ssd1306_delete`, nine drawing routines |

### Who runs what, and how the parts meet

- `app_main` runs the whole set-up in order (`main.c:196-206`) and then ends.
  It blocks in `wifi_init_sta` on the event group (`WiFi.c:222`).
- The **event loop task** runs `STA_event_handler` for the events that the
  Wi-Fi driver and the TCP/IP task post.  It talks to `app_main` through two
  bits, and to the driver by `esp_wifi_connect`, which leads to the next event:
  the retries are a chain of one event per attempt.
- **`wifi_scan_task`** and the **HTTP server's task**, both of priority 5, share
  `g_ap_info` and `g_ap_count` with nothing to exclude one another.
- The **HTTP server's task** runs the POST handler, which rewrites
  `wifi_creds`, stores it and restarts the chip.  What one boot stores is what
  the next boot reads: NVS is the only channel between two boots.
- The **UART interrupt** puts bytes into a ring buffer and events into a queue;
  **`uart_event_task`** (priority 12) takes both, separately, and calls
  `mqtt_publish_data` from its own context.
- The **MQTT task** of esp-mqtt runs `mqtt_event_handler` under the lock that
  `esp_mqtt_client_publish` waits for in `uart_event_task`.
- The **page** runs in the user's browser: its requests reach the HTTP server
  with any delay, and its submit button comes back after a second, answered or
  not.
- The **panel** is written to by `app_main` over I2C.  It is not reset with the
  chip: what one boot left half sent is what the next boot starts from.

### What is hard about it

- *Interleaving*: bits set before, while and after `app_main` waits; a table
  read while it is cleared and refilled; both bits set by the time they are
  read.
- *Ordering*: `GOT_IP` comes from another task than `DISCONNECTED`; list answers
  overtake each other; bytes and their events are dropped independently.
- *Failure*: power may fail at any step of a save; NVS, sockets, sends and the
  HTTP body may fail or be partial, mostly unnoticed, for few results are
  looked at; a body may be longer than the array it is read into; a transfer
  to the panel may break off at any byte.
- *Endless waits*: `xEventGroupWaitBits` and `uart_read_bytes` have no timeout.
- *Limits*: 20 events, a ring of 4096 bytes, 32 rows, 256 bytes of reply, 31
  characters, coordinates of a byte.

The full list, each with its line and the properties that would show it going
wrong, is in `PROJECT.json` under "hazards".

### What makes each part correct

- **Station**: there is exactly one retry chain; it neither doubles nor breaks
  without `WIFI_FAIL_BIT`; the portal opens only when the first try and all
  retries failed in a row.
- **Credentials**: a finished save survives everything and is what the next
  boot is what the
  next boot connects with; after a save that was cut short, or several, each
  half in flash is of the last finished save or of one tried since; from every
  stored pair the portal is a way back.
- **Scan**: the driver stays within the table; between scans the table is the
  last scan; a list request ends, and lists the last scan if left alone.
- **DNS**: a usual query gets exactly the documented reply; nobody gets an
  address unasked; the task listens again after every error.
- **Serial line**: the task never waits in a read; whole frames come through in
  order, each once; bytes and events drift apart only for known causes.
- **MQTT**: a payload handed over is lost only for its age, for want of memory
  or for want of a client; every session has its subscriptions.
- **Line and client together**: a frame that arrives whole is what the broker
  gets, however long the client holds the task up.
- **Page**: what the user chose, and still sees, is what is posted; a blank
  refresh button stands for the last refresh, and comes back.
- **Display**: after an initialisation without loss the panel shows what was
  refreshed last; lines, texts and numbers come out as they should.

## 2. The models

| Module | Models | Remarks |
|---|---|---|
| `BootPromise` | the comment at `WiFi.c:220` | abstract specification of `wifi_init_sta`: losses, retries, the verdict and reboots, without tasks and events |
| `StaBoot` | `WiFi.c:100-240`, `main.c:150-206` | `app_main`, event loop, driver and DHCP client interleave, the chip may reset; refines `BootPromise` |
| `Provisioning`, `MCProvisioning` | `WiFi.c:31-97, 205-213`, `main.c:95-137`, the page's POST | one action per call that can fail; `Reset` for restarts and power cuts |
| `ScanList` | `scan.c:130-187`, `main.c:80-92` | row by row on both sides |
| `DnsServer`, `MCDnsServer` | `dns_server.c` | datagrams are bytes; one action per call and per turn of the loop |
| `UartParameters`, `UartPipeline` | `uart_handler.c` | interrupt and task; a byte is its position on the line |
| `MqttParameters`, `MqttGateway` | `mqtt_gateway.c`, `main.c:205-206` | set-up, event handler, publish; esp-mqtt and broker as environment |
| `Gateway` | `uart_handler.c` and `mqtt_gateway.c` together | composes the two: the callback is a step of both |
| `PortalPage` | `root.html:424-597` | listeners as actions; answers and timer in between |
| `Drawing` | `ssd1306.c`, the drawing routines | pure operators on the buffer, with reference definitions |
| `Display`, `MCDisplay` | `ssd1306.c`, `main.c:139-194` | device, bus, panel; restarts and transfers cut short |
| `StaBootProofs`, `ProvisioningProofs`, `ScanListProofs`, `DnsServerProofs`, `UartPipelineProofs`, `GatewayProofs`, `PortalPageProofs`, `DisplayProofs` | | proofs about the module each is named after; `GatewayProofs` also about `MqttGateway`, `DisplayProofs` also about `Drawing` |

The exact lines of every definition are in `PROJECT.json` under "map".
Variables and actions keep the names of the code (`s_retry_num`, `g_ap_count`,
`parse_dns_name`, ...).  A variable marked *history* is no part of the program;
only properties read it.

Definitions marked *Slip* are not part of a specification.  Each is a mistake
one could make at that place (an off-by-one, a dropped reset, a swapped
order); put in the place of the definition after it, it breaks the property
it is listed with in `PROJECT.json`, which shows that the property looks at that
piece of code.

**StaBoot.**  `app` is where `app_main` stands; each step is one call of it.
`group` and `bits` are the event group and what the wait returned; a blocked
task gets the bits at the moment they are set (`SetBits`).  `evq` is the queue of
the event loop; `OnStart`, `OnConnected`, `OnDisconnected` and `OnGotIp` are the
branches of `STA_event_handler` together with the default handlers that run
before it.  The environment lets an attempt fail or associate, a link break,
and the DHCP client get an address and report it later.  `Reset` takes the chip
back to `Init` from anywhere: a failing `ESP_ERROR_CHECK`, `esp_restart`, a power
cycle.

**Provisioning.**  One `step` runs through boot, the connection attempt (in
short: online or portal) and the POST handler.  Strings are a text and a length,
because lengths decide what `strncpy` cuts and `nvs_get_str` refuses.  `flash`
and `pending` separate what was set from what is durable; `WriteBack` lets NVS
write before the commit.  `Receive` reads a body of any length into an array of
`ContentSize`.  One that is longer overwrites the stack (`overrun`): from then on
every step of the handler may panic instead, and its return does.  One of which
only a part arrives is no JSON, or is completed by what earlier bodies left in
the array (`content`, `Misread`), and then yields items of any of them or of two.
An item that is no string panics in the copy (`CopyNothing`).  `saved` and `tried` are
the pair of the last commit and those of which a key was set since.
`MaxFaults` bounds failures and power cuts together.

**ScanList.**  `Memset` and `GetApRecords` write one row per step, `CheckRow`,
`ReadSsid` and `ReadRest` read a row in two halves, so that torn and mixed
lists occur.  Rows beyond the table read as `Wild`.  `PrintList` may find no memory, and
the request is then answered by an error.

**DnsServer.**  `Prepare`, `parse_dns_name`, `NotStandard` and `AnswerBytes` follow the
pointer arithmetic on a buffer of 256 bytes; `owner` says whose socket the
descriptor stands for, because a failed `recvfrom` closes it twice
(lines 198 and 232).  In station mode the address the reply carries is any of
`Ips`: the code leaves it uninitialised.

**UartPipeline.**  The line carries frames of three bytes, "key, colon, value".
`Store`, `Stash` and `Overflow` are what the interrupt does with a chunk; `Discard`
is flush and reset as two steps.  `leaked` and `intact` record whether
something happened that excuses drift or loss.

**MqttGateway.**  `Then` is the order of the three calls of `mqtt_app_start`.
`Subscribe` runs once per topic after `Connected`, and may find the connection lost;
`Callback` is `mqtt_publish_data` up to the call, `Publish` the call, which waits for
the client's lock (`Locked`) and may find no memory for the payload.  Subscriptions and payloads travel on `wire`, which a
lost connection empties.

**Gateway.**  `Line` and `Mqtt` are instances of the two on shared variables.  `Call`
is `data_callback(json_payload)`, `Return` its end, which is one step of both; in
between `uart_event_task` stands in `parse` and does nothing, while the driver
goes on.  Everything else is a step of one side.

**PortalPage.**  `gets` holds the list requests under way; `Serve` takes the
server's answer, `Loaded` renders it, `LoadFails` and `ListMissing` are the two ways to
fail, with the list left as it was or emptied.  `choice` records what the user chose last and
still sees; `posts` records every POST with the choice it was made for.

**Drawing.**  A buffer is the set of its lit bits, by column, page and bit, as
`ssd1306_fill_point` computes them; coordinates wrap at a byte.  Fonts have the sizes 12
and 16, as in the code, where the loop of `ssd1306_draw_char` ends after half as many
columns.  Next to the routines stand
what they should do, written independently: the points between two ends, the
boxes of a text read back glyph by glyph, the digits of a number as one says
them.

**Display.**  `todo` are the transfers `ssd1306_init` has still to make.  The panel
takes bytes one at a time: `Execute` is what a command with its arguments sets,
`pending` holds a command whose arguments are still missing, and `at` walks through the memory as
data arrives.  `Restart` keeps the panel as it is.

### How the models fit together

`StaBoot`, `Provisioning`, `PortalPage`, `ScanList` and `DnsServer` share the
portal; each takes from the others what it needs as an environment:
`Provisioning` has any connection attempt end in the portal (StaBoot says when it
must), takes any POST at any time (`PortalPage` says which), `PortalPage` gets any
list (`ScanList` says which).  `UartPipeline` lets the publish take any time, and
`MqttGateway` lets the line hand over payloads at any time.  Each model thus
allows at least what the neighbour does.  For the serial line and the client
`Gateway` makes this exact, and `Composition` proves it: every behaviour of the
composition is one of each part.

## 3. The runs

| Run | Properties | Bounds | States |
|---|---|---|---|
| `sta_boot` | TypeOK, OneChain, NoSilentIdle, GivenUpStaysOffline, PortalOnlyAfterFailure, ImplementsPromise, BootSettles | 5 retries, the value of the code; any number of resets | 2,401 |
| `provisioning` | TypeOK, FinishedSaveIsDurable, BootSeeksSaved, HalvesAreKnown, Provisioned | 4 pairs, 2 faults | 891,784 |
| `scan_list` | TypeOK, RecordsFit, SettledTable, UndisturbedListIsScan, RequestsEnd | 2 rows, 3 found | 155,206 |
| `gateway` | TypeOK, ReadNeverBlocks, NoSilentDrift, NothingLost, SubscribedWhileUp, FramesArrive, Drains, ConnectionSettles | 2 frames, ring 4, queue 1; any number of connections | 188,147 |
| `dns` | TypeOK, UsualQueryAnswered, NoAddressUnasked, ForeignCloseNeedsRecvError, KeepsListening | 10 queries, 8 odd datagrams | 1,165 |
| `portal_page` | TypeOK, ListChoicePosted, ButtonTellsRefresh, ButtonComesBack | 2 networks, 3 requests, 1 post | 702,624 |
| `display` | TypeOK, ShowsLastRefresh, LineJoinsEnds, TextReads, NumberReads | 12 by 24 points, 2 calls per boot, 1 loss; any number of restarts; texts of up to 5 characters, numbers of up to 4 digits | 399,431 |
| `success_alert`, `list_size`, `dns_two_questions`, `dns_flags`, `typed_name` | one each, violated | small | section 4 |

### What they show, and why the bounds are enough

- **sta_boot.** Every order of the four tasks from reset on. `OneChain` and
  `NoSilentIdle` say that the retry chain is single and alive;
  `GivenUpStaysOffline` states a consequence of the code that its reader may
  not expect: when the retries run out after a connected boot, the gateway
  stays offline until a reset. `BootSettles` says that the boot blocks for ever
  only on a link without a DHCP answer. The handler distinguishes below, at and
  after the maximum only, and the proofs cover every maximum.
- **provisioning.** The array sizes are those of the code. The posts are the
  longest pair that fits; one whose SSID is cut and whose password is longer
  than the handler's array; one without a password; and one with a number for
  it. A mixed string stands for those that begin in one body and end in
  another. Two faults allow a partial body and then a cut in the save of what
  it became, a cut and a failed read of what it left, and two cuts; panics need
  none. `HalvesAreKnown` does not forbid a torn pair, which the code does make:
  it says what the halves can be, however often saves were cut short.
  `Provisioned` says that the user gets the gateway online from any such state.
- **scan_list.** A table of two rows and scans of up to three access points
  give lists shorter than, as long as and longer than the table, and let two
  scans differ in one row. A list may find no memory when it is printed.
- **dns.** The sizes are the real ones. Names have up to four labels, the
  root's none, up to the longest that fit, and queries one or two questions;
  the odd datagrams are the empty one, one shorter than a header, no question,
  a label beyond the end, a compression pointer, more questions than answers
  fit, three questions that the datagram does not hold, and one longer than the
  receive buffer.
- **gateway.** The ring of four bytes holds one frame and a byte of the next,
  and the queue one event: dropped events, put-aside chunks, overflows and
  flushes happen at every point, also while the task stands in its callback.
  The two frames are cut into chunks in every way. One payload can wait in the
  outbox while the other waits for the lock, and either may find no memory
  there; connections come, break in any
  send and go without bound. The properties of the parts are checked of the
  whole, where the client decides how long a callback takes, and `FramesArrive`
  relates the two ends. The proofs cover every number of frames and every size.
- **portal_page.** The first request and two refreshes overtake each other, fail
  or empty the list, and lists of two rows hold the same name twice, once or
  not at all. That is enough for a refresh that settles and shows the button of
  another still under way, and for a row that is chosen in a list which an
  older answer replaces. Which answer comes last the page cannot tell, and no
  property says. The proofs cover any number of requests and posts.
- **display.** Three pages of twelve columns: everything that is split into
  pages is, and a transfer can break off within a page, between two, and within
  a command of `ssd1306_init`, in this boot or one before. One loss is enough to
  leave the panel at any place, with any argument missing; what follows is
  either initialised again or not shown. Two calls are a drawing, of each kind,
  and its refresh, or an initialisation and one. `ShowsLastRefresh` holds because
  `ssd1306_init` sends every window anew and a refresh writes exactly the whole
  window. The drawing routines depend on no state and are compared with their
  reference definitions once, in the initial states: `LinesJoin` for every pair of
  points of the screen, `NumbersRead` for every number of up to four digits, and
  `TextsRead` for the two sizes of the fonts, on made-up glyphs, in both modes, from
  every place at which the first character fits. The screen holds two lines of
  two characters of size 12, or one of size 16: a text of five goes over several
  lines and screens. The proofs cover every screen up to the driver's 128 by
  64, every glyph and every number.

### Fairness

Fairness is assumed of the program's own tasks, which FreeRTOS runs when they
are ready, and of ESP-IDF where it promises an answer: the driver ends every
attempt and every scan, the HTTP server takes up every request, the browser
gives a lost connection up, the network carries what is sent on a connection
that holds; and of `uart_event_task`, which has the higher priority, that it
gets the client's lock when the client's task lets go of it (strong fairness of
`Return`).  It is not assumed of the world: no DHCP server need answer, no
link need hold, no broker need accept, no line need go on, no user need click.
Exceptions are hypotheses of a property and named there: `Provisioned` is about a
user who posts the right pair again and again at an idle portal (strong
fairness of that POST) and a network that lets a station in that keeps trying
(strong fairness of `Join`); `ConnectionSettles` is about a connection that holds from
some time on; `BootSettles` about a chip that is not reset for ever.

Deadlock is checked where the system never stops.  It is switched off where a
model may end: the station gave up and all services run (`StaBoot`), the gateway
is online and no fault is left (`Provisioning`), the DNS task has ended for want
of a socket, the line's frames are used up (`Gateway`).

## 4. What the runs found

Each of these is a run with one property, the words of the repository, that
TLC finds violated.

| Run | The repository says | The code does |
|---|---|---|
| `success_alert` | `root.html:505` reports that the Wi-Fi connection has succeeded | `main.c:123` answers success in every case, before any connection is tried, also if nothing could be stored |
| `list_size` | `scan.c:13` defines the maximum size of the list | between `scan.c:138` and the next statement the global count exceeds it, and a list request reads beyond the table |
| `dns_two_questions` | `dns_server.c:122`: respond to all questions | the loop moves neither pointer: the first answer is written again and again, the others are zeros |
| `dns_flags` | `dns_server.c:101`: "Not a standard query" | the mask meets the flags in the chip's byte order: standard queries with AD set are dropped, others answered |
| `typed_name` | `root.html:395` invites to type a missing network by hand | `networkItems` (line 449) is a static, empty list; the row clicked before stays active and is posted in place of the name |

Further deviations are part of the models without a run of their own:

- `content` has 1024 bytes, and `httpd_req_recv` is told to fill it with
  `content_len` (`main.c:97-98`): a longer body overwrites the stack (`Overlong`,
  `Overrun`). A body that arrives in parts is parsed as far as it got, or completed
  by what an earlier request left there (`Misread`).
- An item that is no string has no `valuestring` to copy from (`main.c:114`;
  `CopyNothing`): the chip restarts.
- JSON without `wifi_list`, which the server sends when it is short of memory,
  empties the page's list before it throws (`root.html:561`; `ListMissing`).
- `mqtt_gateway.c:80` logs a success also when `esp_mqtt_client_publish` returned -1
  and kept nothing (`Publish`).
- An SSID of 32 bytes loses its last one in both copies (`main.c:114`,
  `WiFi.c:208`; `Cut`).
- The do-while of `parse_dns_name` runs over the end of the root's name
  (`dns_server.c:77`); an A query for the root is answered with zeros.
- At a station `ip_info` stays uninitialized (`dns_server.c:144`; `Ips`), although
  the comment at line 85 has the reply carry the access point's address.
- `ssd1306_draw_line` lights neither end of a diagonal with |dx| = |dy|, and no
  point if both ends are one, although `ssd1306.h:146` draws a line between two
  points; `LinesJoin` is about the other lines.
- In `ssd1306_init` the byte 0xDB, meant for "Set VCOM Deselect Level"
  (`ssd1306.c:317`), is taken for the argument of 0xDA before it, and the
  0x40 after it sets the start line once more.
- `ssd1306_init` returns the result of its last transfer only, where
  `ssd1306.h:39` promises an error for a failure; lost transfers go unnoticed
  (`Transfer`).
- `ssd1306_fill_rectangle` with a far corner at 255 never ends, for its counter is a
  byte; `ssd1306_draw_num` with more than ten digits runs out of powers of ten.
- `main.c:191` draws `c_chBat816` as 8 by 16 points, though its data are 16 wide
  and 8 tall: what the panel shows faithfully is a garbled battery (`MCDisplay!Battery`).
- The refresh listener blanks its button by `textContent`, which removes the
  icon it then spins: the spinner is never seen (`PortalPage` models the button alone).

## 5. The proofs

Every invariant that a passing run checks is a theorem, and so are the action
property of `DnsServer` and the refinement of `BootPromise`. They hold for all
values of the constants, under the named assumptions of the modules, which say
that sizes are natural numbers, positive where the code has them so, and that
special values differ from data. Some say more:

- `StringAssumption` and `PairAssumption` (`Provisioning`): a stored string is
  a text with a length, cutting one does not make it absent, the compiled-in
  pair fits its arrays, and a pair is no mark for the lack of one.
- `NumberAssumption` (`Gateway`) names payloads by their number.
- `BufferAssumption` and `TrafficAssumption` (`DnsServer`): a header and the
  shortest question are received, a name that is received fits the buffer it is
  parsed into, and one that fits leaves the reply room for what follows it;
  127, 128 and 256 bytes in the code. What arrives are bytes, and an address
  has four.
- `ScreenAssumption` and `FontAssumption` (`Drawing`): the screen is at most
  128 by 64 and a number of pages high, fonts have the sizes 12 and 16, and
  glyphs keep to the box of their size, at which the loop of
  `ssd1306_draw_char` stops.
- `ArgumentAssumption` (`Display`): coordinates, sizes and characters are
  natural numbers, the sizes are those of the fonts, and no character reaches
  below row 255, where the byte that counts its rows would wrap.

Nearly every proof goes through an inductive invariant (`IInv`, `Accounts`,
`ClientInv`, `DnsInv`, `DisplayInv`), because the properties are not inductive
by themselves.

**StaBootProofs.** All five state properties of `sta_boot` (`TypeCorrect`,
`RetryChainSingle`, `RetryChainAlive`, `GivingUpIsFinal`, `PortalSound`), and
`KeepsPromise`: `StaBoot` implements `BootPromise`, for every number of
retries, resets included. That giving up is final needs that the chain is
single (else a second trigger would revive it); that the chain is alive needs
what `app_main` has prepared by which step (`Prepared`: handlers are registered
before the driver starts); that the portal is sound needs what the bits are
evidence of by which step (`BitsEvidence`); and the refinement needs that
`s_retry_num` counts losses up to the maximum (`RetriesCountLosses`). Two
lemmas say what posting and taking an event does to the triggers in a queue;
then there is one lemma per task.

**ProvisioningProofs.** All four state properties, for every set of posts, any
array sizes and any number of faults: `TypeCorrect`, `SaveIsDurable`,
`BootUsesSaved`, `HalvesHaveSource`. The invariant says what the handler holds
from which step on (`HandlerHoldsPair`), how far `nvs_write` has got
(`WriteOrder`: each key set waits or is in flash), that a finished save is in
flash with nothing pending until a key is set again (`SavedInFlash`), that
whatever else is in flash was tried since the last one (`KnownInFlash`), and
how far a boot has read what it found, in halves (`BootHalves`) and as a pair
(`BootReads`). It rests on one lemma about `strncpy`: what was cut once is not
cut again (`CutFits`).

**ScanListProofs.** All four state properties, for every table size and every
number of access points: `TypeCorrect`, `RecordsStayInTable`,
`TableIsLastScan`, `UndisturbedListComplete`. The invariant says up to which
row the table is blank or filled at each step of the scan (`TableInv`) and what
an undisturbed request has listed (`ListInv`).

**UartPipelineProofs.** `NeverBlocked`: the task never waits in
`uart_read_bytes`, for every size of buffer, queue and chunk, whatever is
dropped. `DriftHasCause`: bytes are left behind only for the causes that
`NoSilentDrift` names. Bytes and events are tied together by counts: every
event carries, as history, the number of bytes stored when it was posted. The
inductive invariant (`Accounts`) says that the queued events cover disjoint
stretches of the bytes after `base`, in order (`Chained`); that never have more
bytes left the ring than the events taken account for, except between flush and
reset (`Accounted`); and that without a leak both accounts are exact
(`Balanced`). A read then always finds its bytes: they were stored before the
event and at most the bytes of earlier events have left. `TypeCorrect` adds
that payloads consist of bytes of the line, which takes lemmas on what
`parse_data_to_json` finds: first runs exist, and the digits stay within their
run (`FirstRunIn`, `DigitsInRun`, `ParsedType`, by the well-foundedness of the
naturals). `FramesInOrder`: as long as nothing was lost the payloads are the
frames; its invariant (`Aligned`) knows which byte of the line every byte in
the ring and in the task's hand is.

**GatewayProofs.** First the client alone, for every set of payloads:
`ClientKeeps` (`NothingLost`), `ClientBeforeLine`, `ClientSubscribes` and
`ClientTypes`. Its invariant (`ClientInv`) adds to them what the set-up has
done by which step, that nothing is under way without a connection, and which
subscriptions have been sent by the call at which the handler stands. Then the
whole. `Composition`: every step of the gateway is a step of the line or leaves
it alone, and a step of the client or leaves that alone; so
`GatewayNeverBlocks`, `GatewayDrift`, `GatewayKeeps`, `GatewaySubscribes` and
`TypeCorrect` follow from the parts, and all six invariants of the run are
theorems. `FramesThrough` (`FramesArrive`) belongs to neither part: it joins
the line's `FramesInOrder` and the client's `NothingLost` by an invariant of
what is between the two, that the client was handed exactly what was published
and the payload in the callback is the next one (`CallbacksAccounted`).

**PortalPageProofs.** All three state properties, for any lists, names, requests
and posts: `TypeCorrect`, `ClickedNetworkPosted`, `ButtonIsTrue`. The invariant
says that there is one refresh at a time unless they overlapped (`OneRefresh`),
and that a network chosen in the list is its only active row (`ChosenActive`).

**DnsServerProofs.** All three invariants and the action property, for buffers
of any size that satisfy the assumptions, any datagrams of bytes, and queries
of any number of questions and labels. `TypeCorrect`: no reply longer than its
buffer is ever prepared, whatever arrives. `UsualQueriesAnswered`
(`UsualQueryAnswered`): a standard query of one A question for a name that fits
gets the documented bytes. `NoAddressForOthers` (`NoAddressUnasked`): a query
that asks for no address gets zeros behind its own bytes.
`ForeignCloseAfterRecvError`: whose the descriptor is at each step, and that
recvfrom has failed on the socket behind it when it is not the task's own. `DnsInv`
says what every variable holds (`Typed`), what is left in the buffers of a
query that arrived (`Contents`), and how far the reply to a query without
address (`NothingUnasked`) and to a usual one (`UsualUnderWay`) has got at each
turn of the loop.

The hard part is that two definitions are recursive over data: `parse_dns_name`
walks from label to label, and `Encode` strings any number of them together.
Neither an operator by recursion nor induction over sequences is at hand, so
each is taken apart once: `Recursion` and `HasLeast`, both from the
well-foundedness of < on the naturals, show that a function defined on
positions from its values further on exists and is the only one; `ParseTable`
and `FlattenTable` give the walk and the joined labels as such tables, and
`Flattened` that a label's bytes are where the lengths before it say. A walk
over an encoded name then stops at its last byte.

**DisplayProofs.** All five invariants, for every screen up to the driver's,
every font, picture and drawing, and any number of losses and restarts.

- `LastRefreshShown` (`ShowsLastRefresh`). `DisplayInv` follows `ssd1306_init`
  transfer by transfer: which settings the first k have fixed (`Adjusted`),
  what may be pending of a command (`Awaiting`) and where the place stands
  (`Placed`). The crucial case is the start: whatever an earlier boot left half
  sent takes the first one or two bytes as its arguments (`Flushing`), after
  which the panel listens again before anything is sent that is not repeated.
  After the last transfer a refresh starts at the corner, goes down and right
  through every byte once and is at the corner again (`Refreshed`, by induction
  over its bytes), so the panel stays ready (`Ready`) for the next.
- `LinesAlwaysJoin` (`LineJoinsEnds`). After each step of `ssd1306_draw_line`
  the share that has added up is what the steps so far make of it, less than
  one step over (`Even`); so the shorter axis moves by at most one a step and
  by its whole length in all (`Straight`).
- `NumeralsWritten` (`NumberReads`): for every number and up to ten digits,
  since `chShow` tells after each digit whether those so far are more than
  zeros (`ShowsDigits`).
- `TextsReadBack` (`TextReads`): for every text, not only those the run looks
  at. The pen goes from place to place (`PenMoves`), places come one before the
  other on a page (`InOrder`), so no character touches what is there
  (`InkApart`).
- `TypeCorrect`: every byte, whole transfer or not, leaves the panel in one of
  its states.

**Only model-checked.** Every liveness property (`BootSettles`, `Provisioned`,
`RequestsEnd`, `KeepsListening`, `Drains`, `ConnectionSettles`,
`ButtonComesBack`), since the prover handles neither fairness nor ENABLED.

## 6. Assumptions about ESP-IDF

These are not in the repository; the models rely on them as the code does.

- `esp_wifi_connect` starts an attempt on an idle station and does nothing
  otherwise; every attempt ends in one event; the event loop handles one event
  at a time and loses none.  A second `esp_wifi_start` may or may not report
  `STA_START` again.
- `nvs_commit` makes everything set durable; what is set and not committed may
  or may not be; a single key is written as a whole.
- `esp_wifi_scan_get_ap_records` copies at most as many records as its count
  says, and returns their number there.
- The UART driver stores a chunk and posts its event as one step; with no room
  it puts the chunk aside, stops reception and stores it without an event when
  a read makes room; an event for a full queue is dropped.
- esp-mqtt keeps a QoS 1 message until it is acknowledged or too old, or refuses
  it at once for want of memory; it sends it again until then, and holds its lock while it connects and runs the handler.
- lwIP gives a new socket the lowest free descriptor.
- The SSD1306 keeps its memory, settings and place when the chip restarts, for
  nothing is wired to its reset; a transfer that breaks off leaves the bytes
  sent so far taken.

## 7. What is not modelled

- The font tables: they are data.  The routines that draw them are modelled on
  made-up glyphs; of the tables only the picture `app_main` draws is taken over.
- The order of the drawing within one routine, which nobody sees: the panel
  gets the buffer as a whole.
- Log output, and with it `AP_event_handler`, `print_auth_mode`, `print_cipher_type` and
  the MQTT events that are only printed.
- What `root_get_handler` and `http_404_error_handler` send, which are constants, and
  `reback_button_handler`, which is registered nowhere.
- The amount of memory.  An allocation may fail wherever the code looks at it
  (`OutOfMemory`, `InitClient`, `PrintList`) and in the outbox (`Publish`); how much there is, and
  so how many messages the outbox holds, is left open.  A single row that finds
  no memory while a list is made is left out.
- What a body longer than `content` does beyond the handler: here it may panic at
  each of its steps; which other memory it changes is not modelled.
- Characters that reach below row 255 of the display's coordinates, whose counter
  would wrap.
- A failure of `nvs_flash_init` that lasts: the gateway then resets for ever.
- Markup and styles of the page; generated files and build output.
- Bytes within a frame beyond key, colon and value, and the JSON made of them.

## 8. Plan

Done, in this order: `StaBoot` with its abstract specification and proofs;
`Provisioning`; `ScanList`; `UartPipeline` and `MqttGateway` with proofs;
`DnsServer`; `PortalPage`; `Gateway` with the proof of its composition;
`Drawing` and `Display`; proofs for `Provisioning`, `ScanList`, `PortalPage`, `DnsServer`'s
socket, `UartPipeline`'s types and frames, and `FramesArrive`; proofs of what
`DnsServer` replies, and for `Display` and `Drawing`.

What could follow:

1. *Composition* of `StaBoot` with `Provisioning`: the boot in full in place
   of `Join` and `OpenPortal`, so that `Provisioned` rests on the retry chain;
   `PortalPage` and `ScanList` joined by the list request.
2. *Proofs* of the safety half of the liveness properties: that the steps that
   fairness is assumed of are enabled as long as they are needed, as invariants
   (no `WIFI_CONNECTED_BIT` is waited for that nobody can set any more, no
   request is left that no answer can reach).
