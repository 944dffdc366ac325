# TLA+ models of the Instagram backend

Models, model checks and proofs of the parts of this NestJS server in which several requests,
jobs and failures meet. Paths below are paths of the repository; `auth.service.ts` stands for
`src/modules/auth/auth.service.ts` and so on.

## How the server works, and how it is modelled

One Node process (or several behind a balancer) serves HTTP requests and sockets, runs BullMQ
workers and cron jobs, and keeps its state in PostgreSQL (through Prisma), Redis and a media
store. There are almost no transactions and no locks. A handler is a sequence of awaited calls
`read; check; write; write; emit`, and between two awaited calls any other handler may run, also
one of the same user in another tab.

Every module therefore follows the same pattern.

* A table is a function from ids to rows; a column no property depends on is left out.
* A request is a record in `req`. Its `at` names the next awaited call, its other fields are the
  locals that live across calls. **An awaited call that reads or writes shared state is one
  action**; the synchronous code up to the next one belongs to it. Reads that no other action
  of the model can change are folded into their neighbour.
* A request is handled once. The set `Req` bounds how many requests overlap *and* how many happen
  at all; terminated behaviours are allowed, hence `CHECK_DEADLOCK FALSE` in every cfg.
* `Fail` and `Crash` end a started handler at any of its awaited calls and leave what it wrote:
  a rejected call and a dead process look alike to the tables.
* A foreign key, a primary key and Prisma's "record not found" are modelled where a handler can
  run into them: the call rejects and the handler ends.
* A list or a page that is only read is one request, the rows it may return are what can change
  under it, and the property is about what it hands out.
* History variables and fields are named as such in the comments. No action reads them in a
  guard; they say in the properties *when* an undesired state is possible.

Many invariants have the form "X, unless Y": the code does not keep X under every interleaving,
and the property states exactly which overlaps or failures are to blame. Such a property
excludes everything else. Where X breaks in a sequential execution too, the property says so by name
(the caption of a draft, the cover of a highlight, an object removed by its key).

## Inventory

| Part | State | Operations | What is hard |
|---|---|---|---|
| Login sessions (`auth.service.ts`, `users.service.ts`, `admin.service.ts`) | `RefreshToken` rows, `User.passwordHash`, `isDeleted` | login, verify2fa, refresh, logout, revokeSession, logout of the others, change and reset of the password, soft delete, delete by an administrator | rotation races, revoke-all racing a login in flight, failure between writes |
| One-time credentials (`auth.service.ts`, `totp.util.ts`, `socket.service.ts`) | `EmailCode` rows, `reset:` and `2fa:` keys in Redis, `User.totpSecret`, `backupCodes`, socket tickets | forgotPassword, verifyCode, resetPassword, setup2fa, enable2fa, disable2fa, verify2fa, issue, burn | double use, two valid codes, lost update of the array of backup codes, consumed and then a crash |
| Group chats (`chat.service.ts`) | `Chat`, `ChatParticipant` | createGroup, addParticipants, removeParticipant, leaveGroup, deleteChat | decisions on a stale snapshot, succession of the administrator |
| Calls (`chat.service.ts`) | `CallSession`, the `Message` of the call, the screens | startCall, answerCall, declineCall, endCall | check-then-update by two sides, order of events |
| Direct chats and messages (`chat.service.ts`, `chat-util.service.ts`) | `Chat`, `Message`, `MessageRead`, `MessageRequest` | createOrGet, sendMessage, editMessage, deleteMessage, markRead, vanish mode, closeChat, openViewOnce, acceptRequest, declineRequest | duplicate direct chats, view-once opened twice or handed out before it is opened, accept against decline |
| Stories and highlights (`stories.*.ts`, `highlights.service.ts`) | `Story`, `Highlight`, `HighlightStory`, media, the queue `stories` | create, createFromPost, remove, deletion job, hourly sweep, highlights | three systems without a transaction, deleters on old checks, shared media |
| Posts (`posts.service.ts`, `posts.processor.ts`, `comments.service.ts`) | `Post`, `PostMedia`, hashtag and music counters, likes, reposts, pins, collaborators | create, publish, delayed publish, updateCaption, remove, toggles, pin, comments | manual against delayed publication, partial side effects, drifting counters |
| Social graph and access (`follow.service.ts`, `close-friends.service.ts`, `access.service.ts`) | `Follow`, `Block`, `CloseFriend`, `isPrivate` | follow, accept, decline, unfollow, removeFollower, block, unblock, privacy switch | check of the block or of the privacy before the insertion |
| Lists and pages (`posts`, `stories`, `notes`, `live`, `profile`, `access.service.ts`) | none of their own | feed, explore, suggested, tabs, archive, saved, rail, highlights, Add Yours, notes, lives, and each by id | each list filters for itself, in several reads, while the graph changes |
| Live streams (`live.service.ts`) | `Live`, `LiveViewer`, `LiveJoinRequest`, `LiveGuest`, `LiveLike` | start, end, join, leave, like, kick, request, accept, decline, subscribe | join against end, counters written in another order than counted |
| Notes, comments (`notes.*.ts`, `comments.service.ts`) | `Note`, `NoteReply`; `Comment` | create, remove, reply, clean-up; add, remove, pin | one note per user, two places for one answer; two pins at once |
| Verification (`verification.*.ts`) | `Verification`, `isVerified` | trial, subscribe, cancel, nightly sweep | a sweep on old ids, a sweep that fails |
| Notifications (`notifications.service.ts`) | `Notification` | create, mark read, grouped list | the count that is pushed late; the cursor over groups |
| Presence and realtime (`realtime/*`) | Redis key with a time to live, `Presence`, rooms | connect, heartbeat, disconnect | a reconnect during a disconnect, a disconnect that fails half way |
| Feed and Explore (`feed-ranking`, `explore-ranking`, `posts.service.ts`) | a cache in Redis | ranked feed, Explore | an order by scores that change, spread by author; pages by offset |
| Settings (`settings.service.ts`) | `UserSettings`, restricted accounts | who may tag, mention, message, comment | several reads while they change |
| Marks (`posts`, `stories`, `notes`, `comments`, `profile`, `music`, `users`) | `PostLike` and twelve tables like it | toggles, views, saves | read, then create or delete |
| Tags and co-authors (`posts.service.ts`) | `PostTag`, `PostCollaborator` | invite, accept, decline | an answer and an invitation at once, an invitation that stops half way |
| User names (`auth`, `profile`, `users`, `comments`) | `User.userName` | register, update, look up, mention | four places that compare names, two ways |
| Story stickers (`story-stickers.service.ts`) | `StorySticker`, `StoryStickerResponse` | create, list, answer, results | who may know the correct option, shares that are rounded |
| Avatars and uploads (`profile`, `upload`, `storage`) | `Profile.avatarUrl`, objects in the storage | set and delete the avatar, upload, remove | storage and database fail apart, an object that is named is removed by its key |
| Music (`music.service.ts`, `music/online/*`) | `Music` | search, import, stream by ranges | a catalogue that fails, ranges at their ends |
| Search and locations, mail, transcoding, HTTP plumbing | single rows or none | reading, single writes, external services | see Not modelled |

Interaction is by shared tables (stories and posts share media; the social graph decides who may
see or write; account deletion meets sessions), by in-process events (notifications), by BullMQ
jobs (stories, posts) and by socket emits (chats, calls, live). What makes each part correct is
stated by the properties below for the modelled parts and by the hazards listed in
`PROJECT.json` for the others.

## Modules

### Sessions

Rows of `RefreshToken` (`token`), the generation of the password (`password`) and
`User.isDeleted` (`deleted`). `LoginRead`, `Verify2fa` and `IssueTokens` are `login`,
`verify2fa` and `issueTokens`; `RefreshRead`, `RefreshReadUser`, `RefreshRevokeOld` and
`IssueTokens` are the four awaited calls of `refresh`; `LogoutRead`, `RevokeSessionRead` and
`RevokeOne` are `logout` and `revokeSession`; `PasswordChecked`, `SetPassword` and `RevokeAll`
are `changePassword` and `resetPassword`; `SoftDelete` and `AdminDelete` the two deletions.
`register` mints a session for an account that no other request knows yet and is left out. The
tickets, codes and passwords themselves are abstracted to "accepted or refused".

* `RotatedTokensAreDead`: a row that was replaced is revoked, also if `refresh` fails half way.
* `RevokeAllReachesEverySeenSession`: when a handler that revokes everything has answered, every
  session that was alive when it decided to is revoked, and stays so.
* `SurvivorsAreExplained` (`StaleSessionsAreExplained` and `DeletedAccountsLoseTheirSessions`): a
  session outlives a password change (a deletion) only if its login or refresh was in flight at the revocation, or the
  change has failed half way. So the comment at `auth.service.ts:394`, "the password has
  changed: the old sessions are no longer valid", holds up to these two exceptions, and a ticket
  of the second factor is one of the things in flight.
* `OnlyOwnRequestsEndSessions`: a session is never ended by a request of another account.
* `OneSuccessorPerToken` (refuted): a refresh token is exchanged once. Two overlapping
  refreshes both pass the check of `revokedAt`.

### GroupChat

One group from the moment `createGroup` has created it: `exists`, `joined`
(`ChatParticipant.joinedAt`), `admin`. Each handler starts with `loadChat` (one action, although
it consists of a few reads: the decisions use its participants and the caller's `isAdmin`) and
continues call by call; `systemMessage` is `Notice`, the last call that can fail. `cause` records
that a handler wrote on a membership that had changed (`"stale"`), that one failed between two
writes (`"crash"`) or that an administrator used `deleteChat` (`"deleteChat"`).

* `AdministrationIsExplained` (`OrphansAreExplained`, `SecondAdminIsExplained`): there is one administrator, except during the
  hand-over of `leaveGroup` or for a recorded cause.
* `SizeIsExplained` (`EmptyChatsAreExplained`, `LimitIsExplained`): the last one out deletes the
  chat, and only an insertion on an old count exceeds `GROUP_MAX_MEMBERS`.
* `NobodyLosesALiveChat`: nobody but the last one out deletes the chat.
* `GroupKeepsAnAdmin` (refuted): "otherwise the group would stay for ever without one who can
  remove participants". `deleteChat` is open to groups and does not hand over.

### Calls

One call: the `CallSession` row, the lines of type `CALL` in the chat, and the last event the
screens were sent. `AnswerRead`, `DeclineRead`, `EndRead` read and decide; `Update` writes by id,
whatever the row has become; `CallMessage` and `Emit` follow.

* `HistoryAgrees`: status, `answeredAt` and `endedAt` agree unless a status was overwritten that
  its handler had not read (`HistoryIsTrue`), and a finished call has one line in the chat unless
  handlers overlapped or failed (`FinishedCallsHaveOneLine`). The comment at
  `chat.service.ts:1055`, "both sides often send end at the same time", promises more than the
  check of the status keeps: two overlapping ends write two lines, which is one of the exceptions.
* `ScreensAgree`: the screens follow the row, with the same exceptions.

### Stories

Rows, media, the deletion job of every story, the hourly sweep and highlights. `PutMedia`,
`InsertStory`, `Created`, `CreateFails`, `UndoCreate` are `create` with its loop and its `catch`;
`RepostRead` and `InsertRepost` are `createFromPost`; `Remove...` and `RemovePost...` are the two
`remove` handlers; `JobRead`, `JobDelete`, `JobFiles` are `StoriesProcessor.process`, `JobThrows`
and `JobFails` the retries BullMQ makes of it; `Cron...` is `StoriesCron.cleanupExpired`;
`HighlightRead`, `CreateHighlight`, `UnlinkAll`, `Relink`, `UpdateCover`, `RemoveHighlight` are the
highlights, and `RemoveByKey` is `UploadService.remove`.
`file` is the media a row shows: its own, or the cover of a post (media and thumbnail count as
one); `cover` is what `Highlight.coverUrl` names, by default the media of its first story. Failures are
counted and bounded by `FAULTS`: a failing `queue.add`, a call that rejects, a removal from the store
that does not happen, a dead process, a clock that brings a job up early. Removals by key (`taken`)
count against the same bound.
Creating the row and queueing its job is one action, in which the queueing may fail; a crash
between the two has the same outcome.

* `MediaAgree`, first half (`MissingMediaIsExplained`): a story, a post and the cover of a highlight
  have their media, except for five things the code does lose: the sweep swallows a failed delete and removes the media all the same; the `catch`
  of `create` removes the media of rows that stay; a post and its reposts share one file, and
  the first to go takes it along; a highlight keeps the url of a cover whose story is deleted
  (`highlights.service.ts:30`, without any failure or overlap); and `DELETE /upload` removes any object by its key,
  for any user (`upload.service.ts:72`).
* `MediaAgree`, second half (`GoneStoriesLeaveNoMedia`): whoever wins the race to delete a story cleans up.
* `ExpiryIsJustified`: nobody but its owner deletes a story that has not expired, is archived,
  or was in a highlight when the deleter looked.
  The comment "a story in a highlight is NOT deleted" therefore holds up to a highlight made
  between the job's check and its delete, which the cascade empties.
* `ExpiredStoriesGo` (liveness): an expired story that nobody keeps does not stay for good, even
  if its job was lost or has used up its attempts. The only fairness is weak fairness of the
  steps of the sweep: `@Cron(EVERY_HOUR)` starts it again and again, and Node runs an
  uncontended loop to its end. Nothing is assumed of requests or jobs, and finitely many
  failures are allowed.

Not in the model: `take: 500` of the sweep (more than 500 rows that cannot be deleted would
starve the rest), the prompts of the Add Yours chain. Likes and views are in `Marks`, stickers in
`Stickers`, answers in `Notes`.

### Credentials and OneTime

What one account has besides its password and its sessions: the `EmailCode` rows (`code`), the
Redis keys of reset tokens, login tickets and socket tickets (`key`), and `totpSecret`,
`totpEnabled`, `backupCodes` (`factor`). `ForgotPassword` and `CreateCode` are the two writes of
`forgotPassword` (and of `resendCode`, which calls it); `VerifyCode`, `MarkUsed`, `SetResetToken`
are `verifyCode`; `ResetPassword` and `SetPassword` are `resetPassword` (its `revokeAll` is in
`Sessions`); `Setup...`, `Enable...`, `DisableRead`, `SpendAndDisable`, `Clear` are the handlers of
the second factor, `Login`, `SetTicket`, `BurnTicket`, `Verify2fa`, `SpendAndLogin` the login
through it; `Spend` is `consumeSecondFactor`. `IssueSocketTicket` and `BurnSocketTicket` are
`SocketService`. Signatures and TOTP arithmetic are a choice between right and wrong; keys and
codes run out at any time. `OneTime` says what a one-time credential promises.

* `KeysAreOneTime` (refinement of `OneTime`): a reset token sets one password, a ticket lets one
  login through, a socket ticket opens one socket, however many present it at once. The comment
  of `burn` explains why it uses one command; `del` serves `resetPassword` and `verify2fa` the
  same way.
* `MailedCodesAreOneTime`: two mailed codes work at once only if two `forgotPassword`
  requests overlapped (`TwoUsableCodesAreExplained`); a mailed code is marked before its token exists, and buys two only for
  `verifyCode` requests that overlapped (`CodesBuyOneToken`): this check is a read and a write, not
  one command.
* `SecondFactorAgrees`, first half (`BackupCodesAreSpent`): a backup code is accepted once and then off the list, unless somebody
  wrote back a list that had changed meanwhile (which also brings another spent code back). The
  comment "a backup code is one-time: we take it off the list" holds up to this exception.
* `SecondFactorAgrees`, second half (`EnabledIsProven`): a factor that is on has the secret whose code the user has shown, so nobody
  is locked out, unless it was written on a copy that had changed.

### SocialGraph

The tables `Follow` (`follow`), `Block` (`block`), `CloseFriend` (`close`) and `User.isPrivate`
(`private`). `FollowStart`, `FollowPrivacy`, `FollowExisting`, `FollowCreate` are the four awaited
calls of `follow`; `AcceptRead` and `DeclineRead` are `loadOwnRequest`, `Accept` and `Decline` the
write by id that follows, which finds the row in whatever state others have left it; `Unfollow`
is `unfollow` and `removeFollower`; `Block` the transaction of `block`; `AddRead`, `Add`, `Remove`
the close friends; `SetPrivacy` is `updatePrivacy`; `ViewStart`, `ViewPrivacy`, `ViewFollow` are
the three reads of `canViewContent`. A row that was deleted is not handed out again, so that a
handler that holds its id does not touch the next row of the pair. Every handler writes once, so
its death is the behaviour in which it takes no further step. `over` notes in a request what
others did while it was under way, `late` what was inserted although a block had come in between.
Deleted accounts are not in the model.

* `BlockedPairsAreApart`: after a block there is no follow, request or close friend between the
  two, in either direction, except for one whose handler had checked before the block. The story
  rail (`stories.service.ts:236`) selects by follow and close friend and relies on it. The
  comment at `follow.service.ts:214`, "a block breaks the follows in BOTH directions", holds up
  to this exception.
* `FollowsAreWilled`, first half (`FollowersAreConfirmed`): a private account gets a follower by its owner's accept, or it became
  private between the read of `isPrivate` and the insertion.
* `FollowsAreWilled`, second half (`FollowsEndByWill`): a follow ends only by one of the two, and a decline deletes an accepted
  follow only if the accept came after the decline had read the request.
* `ShownIsExplained`: `canViewContent` reads three tables at three moments. Whoever it lets see
  could see at one single moment, or a block came after its first read.
* `AudiencesAgree` (refinement): what one user sees of the four tables behaves like `Audience`, the
  graph under which `Reading` checks the lists. The mapping takes whom he follows with an accepted
  follow, whom a block divides him from, whose close friend he is and who is private.

### Publishing

One post from its upload to its removal: `status` and `due` (`scheduledAt` has come), `caption` as
the set of its hashtags, `links` (`PostHashtag`), what the post has added to `Hashtag.postsCount`
(`count`), to the notifications of its followers (`told`) and to `Music.usesCount` (`uses`), and its
media (`files`). `PutMedia`, `InsertPost`, `EnqueuePublish`, `Answer` and `UndoCreate` are `create`
with its `catch`; `PublishRead` and `Unqueue` are `publish`; `JobRead` is the processor of the
delayed job, whose only attempt a rejection uses up, and `PublishScheduled` the second look it
takes. All three meet in `finalizePublish`: `FinalizeUpdate`, `CountTag` and `LinkTag` (the loop of
`linkHashtags`), `LinkMentions`, `NotifyNewPost`, `CountMusic`, one awaited call each, without a
transaction. `EditRead`, `EditCaption`, `Unlink` and the same loop are `updateCaption`;
`RemoveRead`, `DeletePost`, `RemoveFiles` are `remove`; `RemoveByKey` is `DELETE /upload` of its
media. `Answer` is past the `catch`: `create` returns the promise of `byId` without awaiting it
(`posts.service.ts:248`), so what rejects there removes nothing. The history variable `cause` says what has
happened to the post that may spoil the effects: a call that failed, a lost or early job, two
writers that overlapped, a caption edited after publication (`"edited"`) or before it
(`"draft edited"`).

* `BookkeepingAgrees` (with `TagsFollowTheCaption`), `FollowersHearOnce`: when nobody is at work on it, a published post is
  listed under the hashtags of its caption, and its followers and its track have heard of it
  exactly once, or `cause` says why not. Nobody hears of it before it is out, whatever happens.
  `"draft edited"` is among the causes although nothing overlaps or fails there: editing the
  caption of a draft lists its hashtags at once, and the later `publish` sets the status, meets
  them in `linkHashtags`, fails on the primary key of `PostHashtag` and tells nobody. The comment
  in `create` (`posts.service.ts:240`) says that the hashtags of a draft appear at publication.
* `BookkeepingAgrees` (with `CountersAgree`): a hashtag under which the post is listed has counted it, and has counted it
  once unless there was an edit (nothing ever subtracts), a failure or an overlap.
* `MediaFollowThePost`: a post that is there has its media, except that the `catch` of `create`
  removes them also when the row has been inserted and a later call failed, and that a client may
  remove them by their keys; a post that is gone leaves none.
* `ScheduledPostsGoOut` (liveness): a scheduled post is published or removed in the end, unless
  its job was never queued, came up early, or a handler failed. The comment at
  `posts.service.ts:353` counts on a sweep for these cases, and there is none. Fairness: a handler
  that has started is taken to its end by Node, BullMQ runs a job that is due, time passes. No
  request is assumed to start.

Not in the model: tagged users and the notifications about tags and mentions, which are sent with
the steps that are there; the `Mention` rows, which are made and removed next to the links; who
owns the post; pins. Comments are in `Threads`, likes and reposts in `Marks`, co-authors in `Claims`.

### Live

The streams of one host: the `Live` rows (`live`), `LiveViewer` (`viewer`), `LiveJoinRequest`
(`ask`), `LiveGuest` (`guest`), the number of `LiveLike` rows (`hearts`) and the socket rooms
(`room`). `StartRead` and `StartCreate` are `start`, `EndRead`, `EndViewers` and `EndRow` are `end`;
`ReadLive` and `AssertCanView` begin most handlers of a viewer (`ReadAny` those that do not ask for
`LIVE`); `JoinFind`, `JoinInsert`, `JoinTotal` are `join`, `LeaveRows` is `leave`, and both go on with
`RefreshCount`, `RefreshPeak`, `RefreshWrite` of `refreshViewersCount`; `LikeInsert`, `LikeCount` are
`like`; `Switch` camera and sound; `RequestJoin`, `AcceptRead`, `AcceptAlone`, `Accept`,
`DeclineRead`, `Decline`, `KickViewer`, `KickGuest` the guests; `Subscribe` and `Unsubscribe` the
gateway. `may` is what `AccessService` answers and changes at any time.

* `StreamsAgree`, first part (`RoomsAgree`): `viewersCount`, `peakViewers`, `totalViewers` and `likesCount` say what the rows
  say, except after a count that was written late or a handler that failed (`NumbersAgree`); a
  host has one live stream and a viewer one open row, except for those inserted on an old check
  (`SinglesAreSingle`).
* `StreamsAgree`, second part (`GuestsFollowTheDecision`): a guest has asked, and one whose request is declined is on screen
  only if the host has decided twice or the guest asked again. Two facts of the code stand behind
  the exceptions: `acceptRequest` accepts whatever the request has become, and `declineRequest`
  leaves the guest of an accepted one on screen.

`end` leaves the guests as they are. Comments and reactions are single inserts and left out.

### Messaging

Two users who write to each other: the `Chat` rows with their participants (`chat`), the
`MessageRequest` of each (`ask`), `Message` (`msg`) and `MessageRead` (`read`). `CreateOrGet`,
`FindChat`, `Found`, `FindAgain`, `CreateChat`, `MayWriteFreely`, `AskedBefore`, `UpsertRequest`
are `createOrGet` with `findOrCreateDirectChat`; `ShareElsewhere` is `posts.share`, which creates
chats the same way; `OwnRequest`, `Accept`, `Decline` the decision; `LoadToSend`,
`AssertNotBlocked`, `CreateMessage`, `Emit` are `sendMessage`; `OwnMessage`, `Edit` (with `Emit`),
`Delete` the changes;
`LoadToRead`, `FindUnread`, `CreateReads` are `markRead`; `SetVanishMode`, `FindSeen`, `CloseChat`
the vanish mode; `ReadOnce`, `LoadToOpen`, `OpenOnce` the medium to be seen once; `LeaveChat`,
`DeleteParticipant`, `CountLeft`, `DeleteChat` are `deleteChat`. A chat id is not handed out again.

* `PairsHaveOneChat`: a pair has one chat, but for those created on a search that no longer held.
* `ChatsAreKept`, first half (`DecisionsStand`): an answered request stays answered until its sender asks again, unless a
  handler writes on what it had read before.
* `MessagesKeepTheirWord`: a deleted message has no text and `openViewOnce` hands out a medium to be
  seen once only once, unless two handlers had read the message before either wrote it.
* `ShownOnce` (refuted): such a medium reaches the other one a single time. The comment of `toMessage`
  (`chat.service.ts:1282`) says that nothing but `open` returns it. But `sendMessage` and `editMessage` make the message as its
  *sender* sees it and emit that to everybody (`chat.service.ts:612-616`, `661-663`): the other one has the medium
  before opening it. `shown` counts the two ways apart, and only the way through `open` is as promised.
* `ChatsAreKept`, second half (`MessagesStay`): a message disappears only by the one who has sent or read it under vanish mode,
  or with a chat that nobody is in.

Worth knowing: the upsert of a second request keeps the chat of the first; the sender who closes
the chat deletes his own vanishing messages unread; `loadChat` refuses a direct chat with one
participant left, so that nobody can delete it any more. Theme, nickname, mute and
reports are single writes and left out; reactions are in `Marks`.

### Audience and Reading

`Audience` is the graph as one viewer sees it: whom he follows, whom a block divides him from,
whose close friend he is, who is private; `SocialGraph` implements it (`AudiencesAgree`).
`Reading` is one item (post, story, note or live), one request for a list that may hold it, and
the graph that changes between any two of the request's reads. `Reads` lists the awaited reads of
every list and page, `ReadAuthors`, `ReadHidden`, `ReadClose`, `NotBlocked`, `ReadPrivacy`,
`IsFollowing` and `IsClose` are these reads, and one operator per list (`Feed`, `Explore`, `Tab`, `Rail`, `ByUser`, `Highlight`,
`Note`, `Live`, ...) the `where` of its last one. `ItemChanges` archives, withdraws or expires the
item meanwhile.

* `ContentIsGuarded`, first half (`AudienceIsKept`): what a private account posts is shown to its followers, and what is for close
  friends to them, at some moment of the request, with these exceptions the code has: the tabs
  of a profile hold posts of others (collaborators, tags, reposts) without asking for the author;
  the highlights do not look at `closeFriendsOnly`; the feed, the rail and the list of lives
  ask for no block and rely on `BlockedPairsAreApart`.
* `ContentIsGuarded`, second half (`WithdrawnIsGone`): drafts are shown to nobody else, but their comments are reachable; archived
  posts are out of all lists, but not of the routes by id nor of a collaborator's own archive; an
  expired story or note can be had by its id.

### Notifications

One user's `Notification` rows, the number of unread ones last pushed (`badge`), the handlers that
create (`Insert`, `Count`, `Push`) or mark (`MarkFind`, `Mark`, `MarkAll`) and one reader who follows
the cursors of `list` (`List`): a page takes a window of rows, groups them by
key, keeps the first `Limit` groups and continues below the smallest id of those.

* `NotificationsAgree`, first half (`BadgeIsExplained`): the last badge is the number of unread rows, unless rows came or were marked
  after it was counted.
* `NotificationsAgree`, second half (`PagesMissOnlyEnclosed`): who follows the cursors to the end has been shown everything, except
  rows that lie between two rows of another group. That a cursor can pass these by is a fact of
  the code (`notifications.service.ts:147`).

Left out: the check of the block, thumbnails, `profileViews`.

### Presence

The sockets of one user through `handleConnection` and `handleDisconnect` (`Connect`, `Refuse`, `Join`,
`Touch`, `Upsert`, `Tell`; `Close`, `DeleteKey`, `GoOffline`, `TellOff`), the Redis key with its time to live,
`Presence.isOnline` and what the others were told last. `Heartbeat` renews, `Tick` runs the key
down. `Fail` is an awaited call that rejects: `touch`, `goOffline` and the queries of `broadcastPresence` have no
`catch` (only the upsert of a connect has), and the rest of the handler is not done. `Crash` takes the sockets, the
rooms and the handlers with it. Neither is bounded.

* `OthersKnow`: when nothing is under way, the others know what is so, unless a connect and a
  disconnect overlapped, a socket closed before it was known whose it is, or a handler failed or the process died since. Then the row
  or the others may stay wrong, until the next connect or last disconnect that runs by itself.
* `ClocksAreObeyed`, first half (`TheKeyHeals`, liveness): whatever happened, the key comes back with a heartbeat of a socket
  that stays and expires when none does. Fairness: handlers that have started finish or fail, some
  heartbeats of a connected client get through, time passes; connections, disconnections and failures are never forced.

The rooms are those of socket.io and external. Typing and call relays keep no state.

### Verification

`Verification` and `isVerified` of two users, the days, and the nightly sweep: `TrialRead`,
`StartTrial`, `Subscribe`, `CancelRead`, `Cancel` are the requests; `Midnight`, `WarnFails`,
`ReadTrials`, `ReadSubs` and `Expire` the sweep.

* `TermsAreKept`: a user gets one trial (`TrialsAreOnce`), and a badge that was paid for stays to the
  end of the period (`PaidBadgesStay`), unless the sweep expires what it has collected before the
  payment, or a trial is started during a paid period, which cuts it.
* `ClocksAreObeyed`, second half (`BadgesGo`, liveness): who has used up his trial and periods loses the badge, also when the
  sweep of a night fails. The exception `Endless` is a cancelled trial of one who has never paid:
  the query at line 139 passes it by and it never ends, although the comment at line 102 says
  that it runs to its end. Fairness: nights pass, a sweep finishes or fails.

### Notes and Threads

`Notes` is one author's notes, or his stories (`kind`), and what others answer: `Clear`, `Create` are
`create`, `Remove` and `Cleanup` the two ways a note or story goes, `ReplyRead`, `Send`, `Reply` are
`reply` and `react` of both services, which write a message in the chat and then a row under the
note or story. The queue, the media and the highlights of stories are in `Stories`.

* `NotesAgree`: an author has one note, unless two creations overlapped; an answer whose message points
  at the note or story is among the author's replies as well, unless its handler failed between
  the two, and every reply has its message.

`Threads` is the comments of one post: `AddRead`, `Root`, `Add` are `add`, `Remove` is
`remove`, `PinRead`, `Count`, `Pin`, `Unpin` are `pin`.

* `ThreadsKeepShape`: answers are one level deep and belong to a comment that is there; no more
  comments are pinned than allowed, unless two pins were counted before either was set.

### Pages

A list and a client that reads it to the end while its rows change. `Lists` and the operators below
it (`Feed`, `Comments`, `People`, `Activity`, `Grid`, ...) say of each list of the API how its next page is found
and what can happen to its rows; `BuildCursorPage` is the helper that most of them share
(a query of one row more than a page shows, `cursor` and `skip: 1` in the next), `TakeByTime` the
activity of a profile, `Slice` the pages by offset of the ranked feed and of Explore. `After`
models what the database does with a cursor whose row has gone, left the list or moved.

* `ListsAgree`, first half (`PagesAreComplete`): a client that follows the cursors to the end is
  shown everything that was in the list and in its place all along, once. The exceptions are
  facts of the code: a row that is deleted while it is the cursor ends the list there, one that
  has only left it makes the next row missed; the Add Yours page is filtered after its query
  and can look like the last; entries of one time can be cut apart; by offset rows are missed or
  repeated, one for each that leaves or enters the part already read.

### Marks

Likes of posts, comments, stories and notes, reposts, favourites, views of posts, stories and
profiles, saved music, restricted accounts, the search history and reactions to messages: thirteen tables with one row for a
user and an item (but for the views of a profile), and three ways to write them. `Find`, `Mark`, `Unmark`, `Count` are
the toggles, `Keep` a view that is there already, `Set` and `Take` the upserts and `deleteMany`s.
`Fails` is the rejected call that the exception filter turns into 404 or 409.

* `MarksAgree`: every answer has turned the mark once, however the taps of a user overlap; there
  is one row; a count that answers a like has that like in it; a tap fails only if its user has
  tapped twice at once or the item is gone.

### Claims

The rows of one post that name others: `PostTag` and `PostCollaborator`. `AnswerTag` is
`acceptTag` and `declineTag`, `RespondCollaborator` and `WriteAnswer` are `respondCollaborator`,
`InviteCollaborators`, `CheckBlock` and `WriteInvitation` the loop of `inviteCollaborators`.

* `ProfilesAgree`, second half (`AnswersStand`): once no request about a user is under way, the one that
  began last decides whether he is shown, unless two about him were under way at once; and nobody is
  shown who has never said yes. An invitation sets one who has accepted back
  to `PENDING`; one that meets a block fails with those before it invited. Neither accepting nor a
  tag asks for a block.

### Policies

`SettingsService`: an owner's settings, the follows between him and one who asks, whether he has
restricted him. `Begin` starts a tag, a mention or a message (`passesInteraction`) or a comment
(`assertCanComment`); `ReadSettings`, `ReadFollows`, `ReadRestricted`, `CheckWords` and `Write` are the awaited calls.

* `AnswersAreJustified`, first half (`PoliciesAreObeyed`): a request goes through only if the settings have allowed it at some moment
  of it, and is refused only if they have forbidden it at one, unless they changed twice
  meanwhile. Mentions in a comment ask for no policy (`linkMentions`).

### Names

Registration, the change of the user name, deleted accounts, and what looks a name up. `Available`
is `assertFree` and `checkUsername`, to the letter; `FreeFor` is the check of `update`, which does
not mind the case; `Page` and `Mentioned` are the two ways to find an account.

* `ProfilesAgree`, first half (`NamesAreKeptApart`): two accounts share a name but for its case only
  if one came by it in registration though the other had it, or while the other came by it; a mention
  reaches a user on the page of that name, and nobody whose name has upper-case letters.
* `AnswersAreJustified`, second half (`RefusalsAreExplained`): the unique index refuses what the check
  let pass only if the name was taken since, or an update meets the name of a deleted account, which
  its check does not see. This is a property of the step: a state that has seen a refusal no longer
  shows who had the name (with four requests TLC finds the name given up again).

### Pictures

The avatar of a profile and the files of an upload, in a storage that knows nothing of the database:
`PutAvatar`, `ReadOld`, `WriteAvatar`, `RemoveOld` are `setAvatar` and `deleteAvatar`;
`StoreFile`, `StoreThumb`, `Push`, `Undo` are `uploadMany`, `storeOne` and `cleanup`; `RemoveFile` is `remove`, by any
user, of any object whose key was handed out, avatars included (`taken`). Every put and every write may fail.

* `FilesAgree`, first half (`PicturesAgree`): no order of these steps leaves a profile that names an object that is gone or
  an answered upload without one of its objects, unless somebody removed it by its key: `UploadService.remove` checks neither an
  owner nor who names the object. Objects that nobody names are left only by a storage that
  refused to remove them, by `setAvatar` that failed or overlapped another, and by an upload whose
  thumbnail failed, whose file is not yet among those to clean up.

### Tracks

The search over the catalogues (`AskCatalogue`), the import of a track (`Fetch`, `Upsert`) and
`parseRange`.

* `FilesAgree`, second half (`TracksAgree`): a search fails only when every configured catalogue
  has been asked; an import is not undone by what another had fetched before, unless the two
  overlapped; `parseRange` agrees with a set of bytes that is defined without its arithmetic
  (`Asked`), for all ranges of small files.

### Stickers

The stickers of a story: `Create`, `List`, `Answer`, `Respond`, `Results`, and the story that goes.

* `StickersAgree`: the correct option of a quiz is shown to nobody who has not answered, the
  counts of the options add up to the answers, and the rounded shares to 100 but for half a
  percent of each option.

### Ranking

`rankCandidates` of the feed and `rank` of Explore with `dedupeAuthors` (`Pick`, one post at a
time). The shares of one that the scores are made of count in halves; what the cache or the tables say of
closeness, interest and engagement is a choice.

* `ListsAgree`, second half (`RankingAgrees`): no post is lost or repeated; a seen post comes
  before an unseen one only by its author; two posts of one author follow each other in Explore
  only when no other author is left, and a post is overtaken for no other reason. The comment of `dedupeAuthors` asks for posts of one author
  not to be neighbours "where possible"; the loop looks forward only, and leaves B, A, A for an order
  that could have been A, B, A.

### Parts, Content, Accounts and Chats

Components that share no state are checked side by side. `Chats` puts `GroupChat` and `Calls` next to
each other, the two protocols on the rows of a chat; `Parts` puts `Messaging`, `Reading`,
`Notifications`, `Notes` and `Threads` next to each other; `Content` does so with `Publishing`,
`Pages`, `Marks`, `Pictures`, `Stickers`, `Ranking` and `Tracks`; `Accounts` with `SocialGraph`, `Presence`,
`Verification`, `Policies`, `Names` and `Claims`. `social_graph` also checks `SocialGraph` by itself, with
more requests, and `AccountsRunTheGraph` carries what is proved of it to `Accounts`. In each behaviour one component takes its steps
while the others rest in an initial state (`AtRest`). This adds no behaviour and loses none, and the
fairness of a component is that of its own steps.

## Runs

| Run | Configuration | Instance | Result |
|---|---|---|---|
| `sessions` | `Sessions.cfg` | 2 users, 3 rows, 3 requests | holds |
| `sessions_rotation` | `SessionsRotation.cfg` | 1 user, 3 rows, 3 requests | `OneSuccessorPerToken` violated |
| `chats` | `Chats.cfg` | group: 4 users, at most 3 members, 3 requests; call: 4 users, 4 requests | holds |
| `group_chat_admin` | `GroupChatAdmin.cfg` | 3 users, 2 requests | `GroupKeepsAnAdmin` violated |
| `stories` | `Stories.cfg` | 2 stories, 1 post, 1 highlight, 2 requests, 2 attempts, 1 failure or removal by key | holds |
| `credentials` | `Credentials.cfg` | 2 codes, 2 keys, 2 secrets, 2 backup codes, 3 requests | holds |
| `social_graph` | `SocialGraph.cfg` | 2 users, 2 rows, 3 requests | holds |
| `live` | `Live.cfg` | 2 streams, 2 viewers, 2 viewer rows, 3 requests | holds |
| `parts` | `Parts.cfg` | messaging: a pair, 2 chats, 1 message, 3 requests; reading: 2 others, 1 item, 1 request; notifications: 4 rows, 2 keys, window 3, page 1, 2 handlers; notes: 3 notes, 4 requests; threads: 3 comments, 1 pin, 4 requests | holds |
| `view_once` | `ViewOnce.cfg` | a pair, 1 chat, 1 message, 2 requests | `ShownOnce` violated |
| `content` | `Content.cfg` | publishing: 1 hashtag, 2 requests, the delayed job, 1 failure; pages: 4 items in 4 places, pages of one, 2 changes; marks: 2 users, 3 requests; pictures: 3 requests, uploads of 2 files; stickers: 3 users, 3 options, 3 requests; ranking: 3 authors, 3 posts of the feed, 4 of Explore, shares in halves; tracks: 2 tracks, 3 requests, 1 change, files of 4 bytes | holds |
| `accounts` | `Accounts.cfg` | graph: 2 users, 1 row, 2 requests; presence: 2 sockets, key of 2 ticks; verification: 2 users, 3 requests, 4 days, trial of 1 and period of 2 days, 1 failure; policies: 2 changes; names: 3 accounts, 2 words in 2 cases, 3 requests; claims: an author and 2 others, 3 requests | holds |

Why the bounds are enough: every race in this code is between two handlers, and the third request
of `sessions`, `chats`, `live` and `parts` prepares the state they meet in or acts on its outcome. Three rows
allow a chain of two rotations or two successors of one row. `GROUP_MAX_MEMBERS` is 3 instead of
32 so that the limit is met, with one user more than fit; `GROUP_MIN_INVITES` is 1 instead of 2, so that
the groups of two that leavers leave behind are there from the start. Four requests to one call cover answer, decline
and both ends at once. In `stories` the jobs and the sweep act besides the two requests; the
initial states include a highlight that earlier deletions have emptied; two stories share one
cover; two attempts (three in the code) allow one retry and its exhaustion.

In `credentials` the account starts with a code, with keys and with the
second factor in any of its states, so that three requests reach what would otherwise take many;
two of each credential are what the properties compare.

In `social_graph` one follow, one block and one close friend may be there from the start; every
property speaks of one pair, and the second row is the one created after the first is deleted.
The same instance with four requests also passes, in two and a half minutes; it is not a run of its own.

In `content` the delayed job acts besides the two requests, so that manual, delayed and immediate
publication meet each other, an edit and a removal; the post may also be there from the start in
any status. With one hashtag a caption has it or not; there is one because of the liveness property of the run.

Four items and pages of one let a client ask for four pages, so that the list changes before a
cursor, at it and behind it, twice; the places leave room to insert and to move. Two users who tap
three times overlap with themselves or with each other. Three uploads of two files with their
thumbnails fail at each of the four puts; two uploads at once have no object in common and are
not checked. Three options are the least whose shares do not add up to 100. Four candidates of three
authors are the least in which `dedupeAuthors` overtakes and runs out of others. A file of up to four
bytes has a range that is empty, whole, cut short and beyond its end.

In `parts` the chat may be there from the start with a message of any kind, so that three requests
reach a message that is edited, deleted and read at once; a list is read on every graph that
`Audience` can reach, and the graph changes between its reads without a bound; four
notifications of two groups and pages of one group are the least in which a cursor passes a row
by; two users of a trial or a period that lasts one day or two meet the sweep of each night in
`accounts`, and the last day leaves a night after the one that fails. Two sockets are what a
reconnect needs; failures and the death of the process happen at every step.

Symmetry is used for interchangeable users, rows, credentials and requests in the safety runs, and not in
`stories`, `content` and `accounts`, which check liveness. In `parts` it covers the ids and the
requests of messages.

Each property of a passing run is paired in `PROJECT.json` with a mutant: a plausible bug,
written as an operator next to the one it replaces, under which the property fails. The runs check
each fact once: where two invariants are the two sides of one matter, the run checks their
conjunction under a name of its own (`SurvivorsAreExplained`, `MediaAgree`, `StreamsAgree`, ...). The type
invariants are proved and are not checked by the runs.

## Proofs

Eight modules prove, for any sets of users, rows and requests, what the table lists; `Spec` is
the specification of the component, or of the composition it is a part of.

| Module | Proved of | Safety properties stated by its theorems |
|---|---|---|
| `SessionsProofs` | `Sessions` | all that `sessions` checks |
| `ChatProofs` | `Chats`: `GroupChat`, `Calls` | all that `chats` checks |
| `StoriesProofs` | `Stories` | all that `stories` checks |
| `CredentialsProofs` | `Credentials`, `OneTime` | all that `credentials` checks, the refinement included |
| `AccountsProofs` | `Accounts`: `SocialGraph`, `Audience`, `Presence`, `Verification`, `Policies`, `Names`, `Claims` | all that `social_graph` checks, the refinement included; all safety that `accounts` checks |
| `LiveProofs` | `Live` | `StreamsAgree`, all that `live` checks |
| `PartsProofs` | `Parts`: `Messaging`, `Reading`, `Notifications`, `Notes`, `Threads` | all that `parts` checks |
| `ContentProofs` | `Content`: `Publishing`, `Marks`, `Pictures`, `Tracks`, `Stickers`, `Pages`, `Ranking` | all safety that `content` checks |

Each proof has the same shape: the type invariant where the argument needs one, an inductive invariant
that was first checked by TLC on the instance of the run, the three facts that make it inductive, and the
theorem. The properties are seldom inductive because they speak of the database between requests, and
a request that will write later relies on what it has read earlier; so nearly every invariant says
two things: **what a handler has read still holds, or somebody has marked it**, and
**what is missing from the database somebody is about to write**.

* **Sessions.** `TypeOK`; then, for `RotatedTokensAreDead`, that a refresh about to create its
  row has revoked the old one, and that no row is ever revived. `RevokeAllReachesEverySeenSession`
  rests on the same permanence: a request that has seen a set of sessions has, by the time it
  answers, revoked them, and revoked rows stay revoked. For `StaleSessionsAreExplained` and
  `DeletedAccountsLoseTheirSessions` the invariant is carried to the requests that will still
  create a row: what they hold is as fresh as the password, or they are marked late, or a
  half-done change explains them.
* **GroupChat.** The strengthening says what each pending handler may rely on as long as nothing
  stale has happened: its snapshot is still the membership until it writes, at most one hand-over
  is under way while there is no administrator, and a handler that is about to delete the chat
  has found it empty. Cardinalities use `FiniteUsers`.
* **Calls.** A handler about to update has read a status from which its target is reachable, and
  if nothing was overwritten and it is still the status, then the timestamps are as for that
  status; a line in the chat is written or about to be written by the one handler that made the
  status final. `ChatsRunTheGroup` and `ChatsRunTheCall` carry both to `Chats`.
* **Stories.** `StoryInv` says what each deleter may rely on: a deleter acts on a check that still
  holds, but for highlights made since (`CondemnedOK`); it removes media only of rows that are
  gone or that the sweep failed to delete (`DeletersOK`); every upload owns the stories it has
  picked (`RequestsOK`, `PicksApart`). With it `MediaOK` follows media that is shared or lost: whoever removes media has deleted a row or a post, or is in one of
  the histories, and what was lost once stays so (`LostStays`), also for a cover that outlives its story (`CoversOK`).
  `CleanOK` finds somebody for the media of a row that is gone.
* **Credentials.** A key that was taken is held by one request until it grants something
  (`KeysOK`): that is the whole reason why each grants once, and every step is then a step of
  `OneTime` or leaves it alone. Requests that create or buy for the same code know of each other
  and of what exists already (`CreatorsOK`, `BuyersOK`). The list of backup codes holds codes that
  were handed out and not accepted (`BackupOK`); with `EnabledProven` this is `SecondFactor`.
* **SocialGraph.** Who is between two calls relies on what he has read, unless whoever changed it
  has marked him (`AskFine`, `StatusFine`, `AnswerFine`); a pair has one row (`RowsApart`), so
  deleting it leaves nothing. The reading calls are treated at once (`ReadsStep`), and the last
  calls through one predicate `Safe` that says what they may do to the others. That the module
  implements `Audience` (`AudienceImplemented`) is one step per write: each changes what one viewer
  sees as one action of `Audience` does, or not at all.
* **Live.** What a handler has checked still holds or it was overtaken (`LocalOK`). The three reads of
  `refreshViewersCount` are bounded by the rows that are open and the largest number there has been
  (`CountOK`); the sums are those of the rows but for the handlers that have written a row and not
  yet the sum (`TotalsOK`); a viewer has one open row but for those who were looked for at once
  (`SingleOK`), a host one live stream (`OneLive`), and who is on screen has asked (`SeatOK`).
  The sums need lemmas about the cardinality of sets that gain or lose one row; they are stated once,
  with `FiniteSetTheorems`. TLC found the invariant to hold in the 538,279 states of the instance.
* **Messaging.** The invariant has one part for each thing a handler reads and later acts on: the search for
  the chat (`Creating`), the request to be answered (`Judging`), the message that is edited or opened and those
  seen under vanish mode (`Held`), the chat to be left (`Leaving`). What was read still holds, or the handler
  is marked `stale`, and every message or chat a handler is at has begun; ids are not handed out again, so what
  has ended stays so.
  `PairsHaveOneChat`, `DecisionsStand`, `MessagesKeepTheirWord` and, as an action property,
  `ChatsAreKept` follow.
* **Reading.** The reads of a request come one after the other while the graph changes, and the
  properties ask for *some* moment. `Remembered` therefore says that every read leaves behind a fact about the
  past that no later change undoes, `Stage` which reads a request has behind it at each point of its list.
  TLC: 195,814 states.
* **Notifications.** A badge that differs from the number of unread rows has a handler that will push again, or
  one that counted before a change; the reader's cursor divides the rows into those shown and those below,
  but for rows enclosed by a group.
* **Notes, Threads.** One note but for overlapping creations; the message and the row of an answer
  belong together through the handler that is between the two. Pinned comments are counted through
  those about to be pinned; a parent that is gone takes its answers along in the same write.
* **Publishing.** As long as nobody overlaps there is one writer between the update of the post
  and its last effect (`OneWriter`); what it has linked and what is left make up the caption
  (`LinksOK`), what it has counted is linked or about to be (`CountOK`), and the followers are told
  by the one who publishes (`ToldOK`). Most steps move one handler outside that stretch or break
  one off, and share one lemma (`AsideIInv`); the effects share another (`MidStep`).
  That nobody hears of a post before it is out needs no such condition and has an invariant of its
  own (`Silent`). `PublishesAsSpecified` carries all this to `Content`.
* **Marks.** Whoever is the only one of his user at work finds the row as he has read it, and there is one row at any
  time; all failures are therefore of users who overlap with themselves or of items that are gone.
* **Pictures.** Object keys are numbered and not handed out again. An avatar that was replaced is not
  named again, so `setAvatar` removes it safely, and whoever has replaced it will remove it, or overlapped. An upload that
  fails takes back all its objects but the one whose thumbnail failed.
* **Tracks.** Who has fetched a track and was not passed by another holds something as new as every
  answer so far. `parseRange` is plain arithmetic over `Nat`, and is proved for files of any size.
* **Stickers.** Who knows the correct option has tried it, and who has tried it has answered. The sums of
  `Results` go over all options; `SumAdds` unfolds the fold of the community modules into a sum
  that takes one option at a time, and `SubsetInduction` carries facts of smaller sets of options to
  larger ones. So the answers add up (`AnswersAddUp`), and since a rounded share is off by half a
  percent at most (`Rounded`), so do the shares (`SharesAddUp`).
* **Pages.** One part of the invariant for each way to go on. By row (`CursorOK`) nothing below the
  cursor has been shown, and of what is above it at most as many rows were missed as cursors have left the
  list; by time (`TimesOK`) only entries that share the time of one shown were passed over; by
  offset (`OffsetsOK`) the part already read consists of the first rows, and those in it that were not shown,
  and those outside that were, are counted. A row that enters or leaves this part moves one other
  across its border at most (`PartWithRow`), which is why one is missed or repeated for each.
* **Ranking.** Places are one to one with the candidates (`PlacesCount`), so `Sorted` loses none (`SortedOrders`). In
  `dedupeAuthors` what is left stays sorted, and whoever is before a post that precedes it in the order
  parts it from its author's (`ExploreOK`); once two of one author are neighbours all that is
  left is his.

* **Presence.** Whoever is between two calls finds what it has read, as long as no connect and disconnect
  overlapped and none failed (`Untangled`): a socket that goes knows whether another is there, and the one that goes last
  takes the key, the row and what the others know with it. So the others know what is so (`OthersKnow`).
* **Verification.** A call that has read that its user had no trial was right, or another of his has passed it
  (`TrialsCounted`); the sweep has collected nobody who has paid, or he paid after it had collected
  him, and is counted as such (`PaymentsHonoured`). Days are any numbers.
* **Policies.** As long as nothing has changed, what has been read is so (`AsRead`), and the checks still to
  come decide as the settings mean (`Rest`); after one change the two moments before and after it are
  remembered (`FirstTurn`). A request that reads three tables is therefore decided as one of
  two moments would have it, and a third moment is what it takes to break this.
* **Names.** What the check let pass is still free, or the request was raced (`ChecksHold`); names are
  unique to the letter (`NamesAreUnique`), and accounts that share one but for the case have a loose one
  among them (`PagesAreExplained`).
* **Claims.** A request under way about somebody will write what was last said of him, or two met
  (`WordsKept`); when the last is done it has been written.

Assumptions used are the named `ASSUME`s of the modules, which TLC evaluates in the passing runs:
`NoneAssumption`, `NoUser`, `FiniteUsers`, `Limits`, `NobodyIsNone`, `NoMedia`, `Apart`, `Bounds`,
`NoCredential`, `NobodyElse`, `Distinct`, `FaultsBound`, `HostIsNoUser`; in `Parts` `TwoUsers`,
`ViewerIsApart`, `NothingElse`, `SizesArePositive`, `RowsAreFinite`; in `Content` `OtherIsApart`,
`CallsAreNumbered`, `NoneIsNothing`, `SizesAreNumbers`, `RowsAreFinite`; in `Accounts` `KeysLive`, `DaysAreNumbers`,
`OtherIsApart`, `CallsAreNumbered`. They say that model values differ, that sets of
rows are finite and that limits are numbers.

Only model-checked: `ExpiredStoriesGo`, `ScheduledPostsGoOut` and `ClocksAreObeyed`, because
liveness is out of the prover's reach (as is `ENABLED`). Induction over data is used where a set
is the argument: the theorems of the library that take an operator as a parameter cannot be
instantiated, but `SubsetInduction` needs only that the subsets of a finite set are well-founded.

## Not modelled

* Mail: SMTP calls whose failure the callers swallow or await; no state of the server.
* Search and locations but for their pages: single read-only queries and single writes.
* Transcoding and the validation of bytes (`ffmpeg`, `sharp`), TOTP arithmetic, signatures: what
  they decide is a choice.
* HTTP plumbing but for the cursor page and the errors of the database: guards call
  `AccessService`, interceptors wrap answers, the throttler counts requests; scripts and seeds are
  clients.
* Single writes that no other handler decides upon: theme, nickname and mute of a chat, comments
  and reactions of a live, texts of a profile, collections, reports and their resolution.
* Insights, statistics and history of calls: sums over rows, read once.
* `Notification` rows of the events `publishing`, `social_graph` and `live` send are not followed into
  `Notifications`; the bus is in-process, its handlers swallow their errors, and no component waits for them.
* The deletion of an account over its posts and stories: `softDeleteMe` touches neither, and the
  lists that filter `isDeleted` are not repeated in `Reading`.

What would come next: instances of `Parts` with two messages, and the components that are modelled
only in part.
